---------------------------- MODULE Spec2Model ----------------------------
(***************************************************************************)
(* Verification model of the slc light-cycle server.                       *)
(*                                                                         *)
(* Three specifications share one set of variables:                        *)
(*   Spec          the engine of src/src/server/game.ts (lines 1-412):     *)
(*                 sub-tick input queue with timestamps, no countdown.     *)
(*   SpecCountdown the engine of src/unnamed/part_005 (lines 1-431):       *)
(*                 countdown timer, startingDirection, round_over.         *)
(*   SpecServer    the socket/session layer of src/src/server/server.ts    *)
(*                 (lines 1-142) driving the engine of game.ts.            *)
(*                                                                         *)
(* Coordinates are integers: one unit is 1/2000 of the field's half        *)
(* height (0.0005), so every program constant is a whole number of units   *)
(* and arithmetic is exact (floating-point rounding is not modelled).      *)
(* Times are integer milliseconds, as Date.now() returns them.             *)
(***************************************************************************)
EXTENDS Integers, Sequences, FiniteSets, TLC

VARIABLES
    players,              \* Game.players: id -> Player record
    order,                \* insertion order of Game.players (Map iteration order)
    playing,              \* Game.playing
    prevAlive,            \* Game.prevAlive
    lastTickEndTimestamp, \* Game.lastTickEndTimestamp
    now,                  \* Date.now()
    lastFire,             \* time at which the setInterval timer last fired
    crashed,              \* an uncaught TypeError ended the process
    ev,                   \* the last operation and what it emitted
    copy,                 \* each client's copy of every trail (from game_state)
    asked,                \* clients whose redraw during Playing awaits the next send
    used,                 \* number of inputs, redraws, removals and re-joins so far
    countdowns,           \* pending setTimeout callbacks of startRound (part_005)
    sessions,             \* SessionManager.sessions: session id -> session (server.ts)
    deletions,            \* pending setTimeout callbacks of scheduleDeletion, oldest first
    sockets               \* session ids with a connected socket

vars == << players, order, playing, prevAlive, lastTickEndTimestamp, now,
           lastFire, crashed, ev, copy, asked, used, countdowns, sessions,
           deletions, sockets >>

\* The engine of game.ts has no countdown and does not touch the session layer
EngineOnly == UNCHANGED << countdowns, sessions, deletions, sockets >>

---------------------------------------------------------------------------
(* Bounds of the model *)

NumIds == 2        \* user ids that may join
MaxTicks == 2      \* the clock stops after MaxTicks tick periods
MaxEvents == 2     \* inputs, redraws, removals and re-joins in a run

Ids == 1 .. NumIds

---------------------------------------------------------------------------
(* Program constants of game.ts, in units of 0.0005 (1/2000 of the half height) *)

numPartitions == 10
moveSpeed == 600              \* 0.3 per second
tickRate == 20
subTickRate == 10
aspectRatio == 3000           \* 1.5
fieldHeight == 2000           \* the literal 1.0 in the bounds test
lineWidth == 4                \* 0.002
minSpawnDistanceFromEdge == 200   \* 0.1

TickMs == 1000 \div tickRate
SubTickMs == 1000 \div (tickRate * subTickRate)
partitionSizeX == (2 * aspectRatio) \div numPartitions
partitionSizeY == (2 * fieldHeight) \div numPartitions

Up == 0
Right == 1
Down == 2
Left == 3
Direction == {Up, Right, Down, Left}
Null == -1

Range(seq) == {seq[i] : i \in DOMAIN seq}

Min(a, b) == IF a <= b THEN a ELSE b
Max(a, b) == IF a >= b THEN a ELSE b

oppositeDirection(d) ==
    CASE d = Up -> Down
      [] d = Right -> Left
      [] d = Down -> Up
      [] d = Left -> Right
      [] OTHER -> Null

directionToVector(d) ==
    CASE d = Up -> <<0, 1>>
      [] d = Right -> <<1, 0>>
      [] d = Down -> <<0, -1>>
      [] d = Left -> <<-1, 0>>

---------------------------------------------------------------------------
(* Geometry and the spatial partition *)

\* Math.floor(a / b) for b > 0
Floor(a, b) == a \div b

pointToPartition(point) ==
    LET x == Floor(point[1] + aspectRatio, partitionSizeX)
        y == Floor(point[2] + fieldHeight, partitionSizeY)
    IN  y * numPartitions + x

\* The cells of an lo..hi by lo2..hi2 sweep, outer loop first, as partition numbers.
Sweep(olo, ohi, ilo, ihi, outerIsY) ==
    LET no == IF ohi >= olo THEN ohi - olo + 1 ELSE 0
        ni == IF ihi >= ilo THEN ihi - ilo + 1 ELSE 0
    IN  [k \in 1 .. (no * ni) |->
            LET o == olo + ((k - 1) \div ni)
                i == ilo + ((k - 1) % ni)
            IN  IF outerIsY THEN o * numPartitions + i
                            ELSE i * numPartitions + o]

segmentToPartitions(segment) ==
    LET X1 == segment[1][1] + aspectRatio
        Y1 == segment[1][2] + fieldHeight
        X2 == segment[2][1] + aspectRatio
        Y2 == segment[2][2] + fieldHeight
    IN  IF X1 = X2
        THEN Sweep(Floor(Min(Y1, Y2), partitionSizeY), Floor(Max(Y1, Y2), partitionSizeY),
                   Floor(Min(X1, X2) - lineWidth, partitionSizeX),
                   Floor(Max(X1, X2) + lineWidth, partitionSizeX), TRUE)
        ELSE IF Y1 = Y2
        THEN Sweep(Floor(Min(X1, X2), partitionSizeX), Floor(Max(X1, X2), partitionSizeX),
                   Floor(Min(Y1, Y2) - lineWidth, partitionSizeY),
                   Floor(Max(Y1, Y2) + lineWidth, partitionSizeY), FALSE)
        ELSE << >>

\* The fat bounding box of a line: <<min corner, max corner>>
BoundingBox(line) ==
    LET vertical == line[1][1] = line[2][1]
    IN  << << Min(line[1][1], line[2][1]) - (IF vertical THEN lineWidth ELSE 0),
              Min(line[1][2], line[2][2]) - (IF vertical THEN 0 ELSE lineWidth) >>,
           << Max(line[1][1], line[2][1]) + (IF vertical THEN lineWidth ELSE 0),
              Max(line[1][2], line[2][2]) + (IF vertical THEN 0 ELSE lineWidth) >> >>

\* The overlap test and the collision points of lineToLineCollision, given the
\* two bounding boxes.  [hit, start, end]: start and end are meaningful only
\* when hit
CollisionOfBoxes(line1, b1, b2) ==
    LET line1Vertical == line1[1][1] = line1[2][1]
        overlap == /\ b1[1][1] <= b2[2][1]
                   /\ b1[2][1] >= b2[1][1]
                   /\ b1[1][2] <= b2[2][2]
                   /\ b1[2][2] >= b2[1][2]
    IN  [hit |-> overlap,
         start |-> << IF line1Vertical THEN line1[2][1]
                      ELSE IF line1[1][1] < line1[2][1] THEN b2[1][1] ELSE b2[2][1],
                      IF line1Vertical
                      THEN (IF line1[1][2] < line1[2][2] THEN b2[1][2] ELSE b2[2][2])
                      ELSE line1[2][2] >>,
         end |-> << IF line1Vertical THEN line1[2][1]
                    ELSE IF line1[1][1] < line1[2][1] THEN b2[2][1] ELSE b2[1][1],
                    IF line1Vertical
                    THEN (IF line1[1][2] < line1[2][2] THEN b2[2][2] ELSE b2[1][2])
                    ELSE line1[2][2] >>]

lineToLineCollision(line1, line2) ==
    CollisionOfBoxes(line1, BoundingBox(line1), BoundingBox(line2))

---------------------------------------------------------------------------
(* Player records and the engine of game.ts *)

\* The record addPlayer stores for a new id
NewPlayer ==
    [score |-> 0,
     direction |-> Up,
     startingDirection |-> Null,
     pendingDirectionInputs |-> << >>,
     segments |-> << >>,
     fieldPartitions |-> {},        \* pairs <<partition, segment index>>
     dead |-> TRUE,
     lastSentSegmentIndices |-> << >>,   \* a Map: absent keys are undefined
     pendingRedraw |-> FALSE]

\* player.fieldPartitions[partition], a Set of segment indices
Cell(fieldPartitions, partition) ==
    {e[2] : e \in {f \in fieldPartitions : f[1] = partition}}

SetMin(S) == CHOOSE i \in S : \A j \in S : i <= j

\* Array.prototype.slice(start) on a sequence, with 0-based start
Slice(seq, start) ==
    LET n == Len(seq)
        from == IF start < 0 THEN Max(n + start, 0) ELSE Min(start, n)
    IN  SubSeq(seq, from + 1, n)

---------------------------------------------------------------------------
(* Faulty variants of some operators below. Substituting one for the operator *)
(* it varies must break the property that depends on that operator.          *)

\* redraw that marks pendingRedraw but leaves the watermarks alone
RedrawKeepsWatermarks(ps, id) ==
    IF id \notin DOMAIN ps THEN ps ELSE [ps EXCEPT ![id].pendingRedraw = TRUE]

\* redraw flipping pendingRedraw instead of setting it
redrawFlipsFlag(ps, id) ==
    IF id \notin DOMAIN ps THEN ps
    ELSE [ps EXCEPT ![id].lastSentSegmentIndices =
                        [k \in DOMAIN @ \cup DOMAIN ps |-> IF k \in DOMAIN ps THEN 0 ELSE @[k]],
                    ![id].pendingRedraw = ~@]

\* redraw marking every player when the id names none
redrawEveryone(ps, id) ==
    IF id \notin DOMAIN ps THEN [k \in DOMAIN ps |-> [ps[k] EXCEPT !.pendingRedraw = TRUE]]
    ELSE [ps EXCEPT ![id].lastSentSegmentIndices =
                        [k \in DOMAIN @ \cup DOMAIN ps |-> IF k \in DOMAIN ps THEN 0 ELSE @[k]],
                    ![id].pendingRedraw = TRUE]

\* sendGameState advancing a watermark to the list's length, past the head
AdvancedPastHead(ps, id) ==
    LET old == ps[id].lastSentSegmentIndices
    IN  [id2 \in DOMAIN old |->
            IF id2 \in DOMAIN ps /\ old[id2] < Len(ps[id2].segments) - 1
            THEN Len(ps[id2].segments) ELSE old[id2]]

\* sendGameState setting every watermark to the head index without comparing
AlwaysHeadIndex(ps, id) ==
    LET old == ps[id].lastSentSegmentIndices
    IN  [id2 \in DOMAIN old |->
            IF id2 \in DOMAIN ps THEN Len(ps[id2].segments) - 1 ELSE old[id2]]

\* a startRound guard that forgets the player count
RefusedWhilePlaying(ps, isPlaying) == isPlaying

\* addSegment starting the new segment at the end point of the last one
addSegmentAtEnd(ps, id, direction) ==
    LET player == ps[id]
        lastDirection == directionToVector(player.direction)
        end == player.segments[Len(player.segments)][2]
    IN  IF player.dead THEN ps
        ELSE IF \/ (direction = Right /\ lastDirection[2] = 0)
                \/ (direction = Up /\ lastDirection[1] = 0)
                \/ (direction = Down /\ lastDirection[1] = 0)
                \/ (direction = Left /\ lastDirection[2] = 0)
        THEN ps
        ELSE [ps EXCEPT ![id].direction = direction,
                        ![id].segments = Append(@, << end, end >>)]

\* findLast in place of findIndex: the last legal input of the window
FindLastInput(player, beginCutoff, endCutoff) ==
    LET q == player.pendingDirectionInputs
        ok == {i \in 1 .. Len(q) :
                  /\ q[i].receivedTimestamp >= beginCutoff
                  /\ q[i].receivedTimestamp < endCutoff
                  /\ q[i].direction # oppositeDirection(player.direction)
                  /\ q[i].direction # player.direction}
    IN  IF ok = {} THEN 0 ELSE CHOOSE i \in ok : \A j \in ok : i >= j

---------------------------------------------------------------------------
(* The engine of game.ts, continued *)

addSegment(ps, id, direction) ==
    LET player == ps[id]
        lastDirection == directionToVector(player.direction)
        n == Len(player.segments)
        end == player.segments[n][2]
        newPoint ==
            CASE direction = Left ->
                    << end[1] - lineWidth, end[2] - lastDirection[2] * lineWidth >>
              [] direction = Right ->
                    << end[1] + lineWidth, end[2] - lastDirection[2] * lineWidth >>
              [] direction = Up ->
                    << end[1] - lastDirection[1] * lineWidth, end[2] + lineWidth >>
              [] direction = Down ->
                    << end[1] - lastDirection[1] * lineWidth, end[2] - lineWidth >>
    IN  IF player.dead THEN ps
        ELSE IF \/ (direction = Right /\ lastDirection[2] = 0)
                \/ (direction = Up /\ lastDirection[1] = 0)
                \/ (direction = Down /\ lastDirection[1] = 0)
                \/ (direction = Left /\ lastDirection[2] = 0)
        THEN ps
        ELSE [ps EXCEPT ![id].direction = direction,
                        ![id].segments = Append(@, << newPoint, newPoint >>)]

\* The two inner loops of extendLastSegment for one partition: every player2 in
\* Map order, every segment index of its cell in insertion (ascending) order,
\* with the break at the first hit of each player2.
\* st = [end, dead, fp, crashed]: the head end point, the dead flag and the
\* fieldPartitions of the player being extended.
RECURSIVE ScanPlayers(_, _, _, _, _, _, _)
ScanPlayers(ps, ord, k, id, partition, oldSegmentEnd, st) ==
    IF k > Len(ord) THEN st
    ELSE
        LET id2 == ord[k]
            player2 == ps[id2]
            headIndex == Len(ps[id].segments) - 1
            cell == Cell(IF id2 = id THEN st.fp ELSE player2.fieldPartitions, partition)
            consideredSegment == << oldSegmentEnd, st.end >>
            hits == {i \in cell :
                        /\ ~(id2 = id /\ headIndex - i < 2)
                        /\ lineToLineCollision(consideredSegment, player2.segments[i + 1]).hit}
            first == SetMin(hits)
            st2 == IF hits = {} THEN st
                   ELSE [st EXCEPT
                           !.dead = TRUE,
                           !.end = lineToLineCollision(consideredSegment,
                                                       player2.segments[first + 1]).start]
        IN  ScanPlayers(ps, ord, k + 1, id, partition, oldSegmentEnd, st2)

\* The outer loop of extendLastSegment over newPartitions
RECURSIVE ScanPartitions(_, _, _, _, _, _, _)
ScanPartitions(ps, ord, id, newPartitions, j, oldSegmentEnd, st) ==
    IF j > Len(newPartitions) THEN st
    ELSE IF newPartitions[j] \notin 0 .. (numPartitions * numPartitions - 1)
    THEN [st EXCEPT !.crashed = TRUE]    \* fieldPartitions[partition] is undefined
    ELSE
        LET headIndex == Len(ps[id].segments) - 1
            st1 == [st EXCEPT !.fp = @ \cup {<< newPartitions[j], headIndex >>}]
            st2 == ScanPlayers(ps, ord, 1, id, newPartitions[j], oldSegmentEnd, st1)
        IN  ScanPartitions(ps, ord, id, newPartitions, j + 1, oldSegmentEnd, st2)

\* What extendLastSegment leaves in the player once the partition loop has
\* ended in st: the head end point, the dead flag and the spatial index
Scanned(ps, id, st) ==
    [players |-> [ps EXCEPT ![id].segments[Len(ps[id].segments)][2] = st.end,
                            ![id].dead = st.dead,
                            ![id].fieldPartitions = st.fp],
     crashed |-> st.crashed]

\* extendLastSegment without its bounds test
NoBoundsTest(ps, ord, id, oldSegmentEnd, newEnd) ==
    Scanned(ps, id,
            ScanPartitions(ps, ord, id,
                           segmentToPartitions(<< oldSegmentEnd, newEnd >>), 1,
                           oldSegmentEnd,
                           [end |-> newEnd, dead |-> FALSE,
                            fp |-> ps[id].fieldPartitions, crashed |-> FALSE]))

\* extendLastSegment once the new head end point is computed: the bounds test,
\* then the partition loop
HeadMovedTo(ps, ord, id, oldSegmentEnd, newEnd) ==
    IF \/ newEnd[1] < -aspectRatio \/ newEnd[1] > aspectRatio
       \/ newEnd[2] < -fieldHeight \/ newEnd[2] > fieldHeight
    THEN [players |-> [ps EXCEPT ![id].segments[Len(ps[id].segments)][2] = newEnd,
                                 ![id].dead = TRUE],
          crashed |-> FALSE]
    ELSE Scanned(ps, id,
                 ScanPartitions(ps, ord, id,
                                segmentToPartitions(<< oldSegmentEnd, newEnd >>), 1,
                                oldSegmentEnd,
                                [end |-> newEnd, dead |-> FALSE,
                                 fp |-> ps[id].fieldPartitions, crashed |-> FALSE]))

\* extendLastSegment(player, 1000 / rate): [players, crashed]
extendLastSegment(ps, ord, id, rate) ==
    LET player == ps[id]
        direction == directionToVector(player.direction)
        length == moveSpeed \div rate
        oldSegmentEnd == player.segments[Len(player.segments)][2]
    IN  IF player.dead THEN [players |-> ps, crashed |-> FALSE]
        ELSE HeadMovedTo(ps, ord, id, oldSegmentEnd,
                         << oldSegmentEnd[1] + direction[1] * length,
                            oldSegmentEnd[2] + direction[2] * length >>)

\* findIndex of processSubTick: the 1-based position of the first queued input
\* inside the window that is a legal turn, or 0
FindInput(player, beginCutoff, endCutoff) ==
    LET q == player.pendingDirectionInputs
        ok == {i \in 1 .. Len(q) :
                  /\ q[i].receivedTimestamp >= beginCutoff
                  /\ q[i].receivedTimestamp < endCutoff
                  /\ q[i].direction # oppositeDirection(player.direction)
                  /\ q[i].direction # player.direction}
    IN  IF ok = {} THEN 0 ELSE SetMin(ok)

\* The result of one iteration of processSubTick's loop for a live player:
\* what extendLastSegment returned, and the alive list
WithAlive(ext, alive) ==
    [players |-> ext.players, crashed |-> ext.crashed, alive |-> alive]

\* The loop body of processSubTick for the players ord[k..]:
\* r = [players, crashed, alive]
RECURSIVE SubTickPlayers(_, _, _, _, _)
SubTickPlayers(r, ord, k, subTickIndex, lastTickEnd) ==
    IF k > Len(ord) \/ r.crashed THEN r
    ELSE
        LET id == ord[k]
            player == r.players[id]
            beginCutoff == lastTickEnd + subTickIndex * SubTickMs
            endCutoff == beginCutoff + SubTickMs
            lastInputBeforeCutoff == FindInput(player, beginCutoff, endCutoff)
            turned ==
                IF lastInputBeforeCutoff = 0 THEN r.players
                ELSE [addSegment(r.players, id,
                                 player.pendingDirectionInputs[lastInputBeforeCutoff].direction)
                        EXCEPT ![id].pendingDirectionInputs =
                                    Slice(player.pendingDirectionInputs, lastInputBeforeCutoff)]
        IN  IF player.dead
            THEN SubTickPlayers(r, ord, k + 1, subTickIndex, lastTickEnd)
            ELSE SubTickPlayers(WithAlive(extendLastSegment(turned, ord, id,
                                                            tickRate * subTickRate),
                                          Append(r.alive, id)),
                                ord, k + 1, subTickIndex, lastTickEnd)

processSubTick(ps, ord, subTickIndex, lastTickEnd) ==
    SubTickPlayers([players |-> ps, crashed |-> FALSE, alive |-> << >>],
                   ord, 1, subTickIndex, lastTickEnd)

\* The scoring loop of gameLoop: players.get(id)!.score++ for each winner, in
\* order; an id that is no longer in the table throws.
\* r = [players, crashed, scored]
RECURSIVE ScoreWinners(_, _, _)
ScoreWinners(r, winners, k) ==
    IF k > Len(winners) THEN r
    ELSE IF winners[k] \notin DOMAIN r.players THEN [r EXCEPT !.crashed = TRUE]
    ELSE ScoreWinners([r EXCEPT !.players[winners[k]].score = @ + 1,
                                !.scored = Append(@, winners[k])],
                      winners, k + 1)

\* The sub-tick loop of gameLoop.
\* g = [players, prevAlive, playing, crashed] and what the tick did: subTicks run,
\* diedAt (id -> sub-tick of death), over, winners, scored, and maxGrowth, the
\* most segments any player gained within one sub-tick
RECURSIVE SubTicks(_, _, _, _)
RECURSIVE SubTickDone(_, _, _, _, _)

\* One iteration of the sub-tick loop after processSubTick has returned r
SubTickDone(g, ord, i, lastTickEnd, r) ==
        LET died == {id \in DOMAIN g.players : ~g.players[id].dead /\ r.players[id].dead}
            diedAt == [id \in DOMAIN g.diedAt \cup died |->
                          IF id \in DOMAIN g.diedAt THEN g.diedAt[id] ELSE i]
            grew == {Len(r.players[id].segments) - Len(g.players[id].segments) :
                        id \in DOMAIN g.players}
            g1 == [g EXCEPT !.players = r.players, !.subTicks = i + 1, !.diedAt = diedAt,
                            !.maxGrowth = Max(@, CHOOSE m \in grew \cup {0} :
                                                    \A n \in grew \cup {0} : m >= n)]
            winners == IF Len(r.alive) = 1 THEN r.alive ELSE g.prevAlive
            sc == ScoreWinners([players |-> r.players, crashed |-> FALSE, scored |-> << >>],
                               winners, 1)
        IN  IF r.crashed THEN [g1 EXCEPT !.crashed = TRUE]
            ELSE IF Len(r.alive) <= 1
            THEN [g1 EXCEPT !.playing = FALSE,
                            !.over = TRUE,
                            !.winners = winners,
                            !.players = sc.players,
                            !.scored = sc.scored,
                            !.crashed = sc.crashed,
                            !.prevAlive = IF sc.crashed THEN g.prevAlive ELSE r.alive]
            ELSE SubTicks([g1 EXCEPT !.prevAlive = r.alive], ord, i + 1, lastTickEnd)

SubTicks(g, ord, i, lastTickEnd) ==
    IF i >= subTickRate THEN g
    ELSE SubTickDone(g, ord, i, lastTickEnd, processSubTick(g.players, ord, i, lastTickEnd))

\* sendGameState(player): the message for receiver id and the watermarks after it.
\* A message maps each player2 to [w, segs]: the receiver's watermark before
\* the send (0 when undefined) and the slice sent.
Watermark(ps, id, id2) ==
    IF id2 \in DOMAIN ps[id].lastSentSegmentIndices
    THEN ps[id].lastSentSegmentIndices[id2] ELSE 0

GameStateMessage(ps, id) ==
    [id2 \in DOMAIN ps |->
        [w |-> Watermark(ps, id, id2),
         segs |-> Slice(ps[id2].segments, Watermark(ps, id, id2))]]

AdvancedWatermarks(ps, id) ==
    LET old == ps[id].lastSentSegmentIndices
        raise == {id2 \in DOMAIN ps \cap DOMAIN old : old[id2] < Len(ps[id2].segments) - 1}
    IN  [id2 \in DOMAIN old |->
            IF id2 \in raise THEN Len(ps[id2].segments) - 1 ELSE old[id2]]

sendGameState(ps, id) ==
    [ps EXCEPT ![id].lastSentSegmentIndices = AdvancedWatermarks(ps, id)]

---------------------------------------------------------------------------
(* The environment's choices *)

\* Spawn points and directions Math.random() may produce (each inside the
\* spawn rectangle): <<startX, startY, direction>>
\* startRound draws every spawn point at least minSpawnDistanceFromEdge inside
InSpawnArea(spawn) ==
    /\ spawn[1] >= -aspectRatio + minSpawnDistanceFromEdge
    /\ spawn[1] <= aspectRatio - minSpawnDistanceFromEdge
    /\ spawn[2] >= -fieldHeight + minSpawnDistanceFromEdge
    /\ spawn[2] <= fieldHeight - minSpawnDistanceFromEdge
    /\ spawn[3] \in Direction

Spawns == {spawn \in {<< 0, 0, Right >>, << 57, 0, Left >>} : InSpawnArea(spawn)}

\* The clock is read at multiples of ClockStep
ClockStep == TickMs \div 2

---------------------------------------------------------------------------
(* Events and the clients' copies *)

NoEvent ==
    [op |-> "init", id |-> 0, subTicks |-> 0, diedAt |-> << >>, over |-> FALSE,
     winners |-> << >>, scored |-> << >>, maxGrowth |-> 0, redrawn |-> {}, base |-> 0,
     emitted |-> << >>, sent |-> << >>, dropped |-> {}]

Event(name, id) == [name |-> name, id |-> id]

\* A client overwrites its copy of a trail from index w with the slice received
Overwrite(trail, w, segs) ==
    SubSeq(trail, 1, Min(Max(w, 0), Len(trail))) \o segs

\* The copies after the game_state messages `sent` (receiver -> message) and
\* the remove events for `removed`, over the players `ps`
Copies(old, ps, sent, removed) ==
    [c \in DOMAIN ps |->
        [p \in DOMAIN ps |->
            LET had == IF c \in DOMAIN old /\ p \in DOMAIN old[c] /\ p \notin removed
                          /\ c \notin removed
                       THEN old[c][p] ELSE << >>
            IN  IF c \in DOMAIN sent /\ p \in DOMAIN sent[c]
                THEN Overwrite(had, sent[c][p].w, sent[c][p].segs)
                ELSE had]]

---------------------------------------------------------------------------
(* Operations of Game (game.ts) *)

Init ==
    /\ players = << >>
    /\ order = << >>
    /\ playing = FALSE
    /\ prevAlive = << >>
    /\ lastTickEndTimestamp = 0
    /\ now = 0
    /\ lastFire = 0
    /\ crashed = FALSE
    /\ ev = NoEvent
    /\ copy = << >>
    /\ asked = {}
    /\ used = 0
    /\ countdowns = 0
    /\ sessions = << >>
    /\ deletions = << >>
    /\ sockets = {}

\* redraw(id) on the table ps
redraw(ps, id) ==
    IF id \notin DOMAIN ps THEN ps
    ELSE [ps EXCEPT ![id].lastSentSegmentIndices =
                        [k \in DOMAIN @ \cup DOMAIN ps |-> IF k \in DOMAIN ps THEN 0 ELSE @[k]],
                    ![id].pendingRedraw = TRUE]

\* The handshake loop of addPlayer: the watermarks of id after it
Handshake(ps, id) ==
    [ps EXCEPT ![id].lastSentSegmentIndices =
        [k \in DOMAIN @ \cup DOMAIN ps |->
            IF k \in DOMAIN ps THEN Len(ps[k].segments) - 1 ELSE @[k]]]

\* addPlayer storing a new record for every join
addPlayerAnew(ps, id) ==
    Handshake([k \in DOMAIN ps \cup {id} |-> IF k = id THEN NewPlayer ELSE ps[k]], id)

\* addPlayer(socket, id, name, color): the table after it
addPlayer(ps, id) ==
    Handshake(IF id \notin DOMAIN ps
              THEN [k \in DOMAIN ps \cup {id} |-> IF k = id THEN NewPlayer ELSE ps[k]]
              ELSE redraw(ps, id),
              id)

AddPlayer(id) ==
    /\ ~crashed
    /\ EngineOnly
    /\ id \in DOMAIN players => used < MaxEvents
    /\ used' = IF id \in DOMAIN players THEN used + 1 ELSE used
    /\ LET before == IF id \in DOMAIN players THEN redraw(players, id)
                     ELSE [k \in DOMAIN players \cup {id} |->
                              IF k = id THEN NewPlayer ELSE players[k]]
           msg == [p \in DOMAIN before |-> [w |-> 0, segs |-> before[p].segments]]
       IN  /\ players' = addPlayer(players, id)
           /\ order' = IF id \in DOMAIN players THEN order ELSE Append(order, id)
           /\ ev' = [NoEvent EXCEPT !.op = "addPlayer", !.id = id,
                        !.emitted = IF id \in DOMAIN players THEN << >>
                                    ELSE << Event("modify_player", id) >>,
                        !.sent = [c \in {id} |-> msg]]
           /\ copy' = Copies(copy, players', [c \in {id} |-> msg], {})
    /\ asked' = asked \ {id}
    /\ UNCHANGED << playing, prevAlive, lastTickEndTimestamp, now, lastFire, crashed >>

removePlayer(ps, id) ==
    [k \in DOMAIN ps \ {id} |-> ps[k]]

RemovePlayer(id) ==
    /\ ~crashed
    /\ EngineOnly
    /\ used < MaxEvents
    /\ used' = used + 1
    /\ players' = removePlayer(players, id)
    /\ order' = SelectSeq(order, LAMBDA k : k # id)
    /\ ev' = [NoEvent EXCEPT !.op = "removePlayer", !.id = id,
                 !.emitted = IF id \in DOMAIN players THEN << Event("remove", id) >>
                             ELSE << >>]
    /\ copy' = Copies(copy, players', << >>, {id} \cap DOMAIN players)
    /\ asked' = asked \ {id}
    /\ UNCHANGED << playing, prevAlive, lastTickEndTimestamp, now, lastFire, crashed >>

\* processInput(id, direction) at time t
processInput(ps, id, direction, t) ==
    IF id \notin DOMAIN ps \/ ~playing THEN ps
    ELSE IF ps[id].dead THEN ps
    ELSE [ps EXCEPT ![id].pendingDirectionInputs =
                        Append(@, [direction |-> direction, receivedTimestamp |-> t])]

\* The input arrives dt after the last event; the interval timer fires at most
\* ClockStep late
ProcessInput(id, direction, dt) ==
    /\ ~crashed
    /\ EngineOnly
    /\ used < MaxEvents
    /\ used' = used + 1
    /\ now + dt <= lastFire + TickMs + ClockStep
    /\ now' = now + dt
    /\ players' = processInput(players, id, direction, now')
    /\ ev' = [NoEvent EXCEPT !.op = "processInput", !.id = id]
    /\ UNCHANGED << order, playing, prevAlive, lastTickEndTimestamp, lastFire,
                    crashed, copy, asked >>

Redraw(id) ==
    /\ ~crashed
    /\ EngineOnly
    /\ used < MaxEvents
    /\ used' = used + 1
    /\ players' = redraw(players, id)
    /\ ev' = [NoEvent EXCEPT !.op = "redraw", !.id = id]
    /\ asked' = IF id \in DOMAIN players /\ playing THEN asked \cup {id} ELSE asked
    /\ UNCHANGED << order, playing, prevAlive, lastTickEndTimestamp, now, lastFire,
                    crashed, copy >>

\* The respawn loop of startRound: spawn maps each id to <<startX, startY, direction>>
Respawn(ps, spawn) ==
    [id \in DOMAIN ps |->
        LET startPoint == << spawn[id][1], spawn[id][2] >>
        IN  [ps[id] EXCEPT
                !.segments = << << startPoint, startPoint >> >>,
                !.fieldPartitions = {<< pointToPartition(startPoint), 0 >>},
                !.pendingDirectionInputs = << >>,
                !.direction = spawn[id][3],
                !.dead = FALSE,
                !.lastSentSegmentIndices =
                    [k \in DOMAIN @ \cup DOMAIN ps |-> IF k \in DOMAIN ps THEN 0 ELSE @[k]]]]

\* The guard of startRound: TRUE when it returns at once
startRoundRefused(ps, isPlaying) ==
    isPlaying \/ Cardinality(DOMAIN ps) < 2

StartRound ==
    /\ ~crashed
    /\ EngineOnly
    /\ IF startRoundRefused(players, playing)
       THEN /\ ev' = [NoEvent EXCEPT !.op = "startRound"]
            /\ UNCHANGED << players, prevAlive, playing >>
       ELSE \E spawn \in [DOMAIN players -> Spawns] :
                /\ players' = Respawn(players, spawn)
                /\ ev' = [NoEvent EXCEPT !.op = "startRound",
                                         !.emitted = << Event("starting", 0) >>]
                /\ prevAlive' = order
                /\ playing' = TRUE
    /\ UNCHANGED << order, lastTickEndTimestamp, now, lastFire, crashed, copy, asked, used >>

\* The send loops of gameLoop: the receivers of a game_state in this tick
Receivers(ps, wasPlaying) ==
    IF wasPlaying THEN DOMAIN ps ELSE {id \in DOMAIN ps : ps[id].pendingRedraw}

RECURSIVE SendAll(_, _)
SendAll(ps, to) ==
    IF to = {} THEN ps
    ELSE LET id == CHOOSE c \in to : TRUE
         IN  SendAll([sendGameState(ps, id) EXCEPT ![id].pendingRedraw = FALSE], to \ {id})

\* gameLoop running its sub-ticks whether or not a round is being played
GameLoopWithoutPlayingTest ==
    /\ ~crashed
    /\ EngineOnly
    /\ lastFire < MaxTicks * TickMs
    /\ now' = Max(now, lastFire + TickMs)
    /\ lastFire' = now'
    /\ \E g \in {SubTicks([players |-> players, prevAlive |-> prevAlive,
                            playing |-> playing, crashed |-> FALSE, subTicks |-> 0,
                            diedAt |-> << >>, over |-> FALSE, winners |-> << >>,
                            scored |-> << >>, maxGrowth |-> 0],
                           order, 0, lastTickEndTimestamp)} :
       \E to \in {IF g.crashed THEN {} ELSE Receivers(g.players, playing)} :
       \E sent \in {[c \in to |-> GameStateMessage(g.players, c)]} :
           /\ players' = SendAll(g.players, to)
           /\ prevAlive' = g.prevAlive
           /\ playing' = g.playing
           /\ crashed' = g.crashed
           /\ lastTickEndTimestamp' =
                  IF playing /\ ~g.crashed THEN now' ELSE lastTickEndTimestamp
           /\ ev' = [NoEvent EXCEPT !.op = "gameLoop", !.subTicks = g.subTicks,
                        !.diedAt = g.diedAt, !.over = g.over, !.scored = g.scored,
                        !.winners = g.winners, !.maxGrowth = g.maxGrowth,
                        !.redrawn = asked, !.base = lastTickEndTimestamp,
                        !.emitted = [k \in 1 .. Len(g.scored) |->
                                        Event("modify_player", g.scored[k])],
                        !.sent = sent]
           /\ copy' = Copies(copy, players', sent, {})
           /\ asked' = asked \ to
    /\ UNCHANGED << order, used >>

\* The interval timer fires one tick period after it last fired, or later
GameLoop ==
    /\ ~crashed
    /\ EngineOnly
    /\ lastFire < MaxTicks * TickMs
    /\ now' = Max(now, lastFire + TickMs)
    /\ lastFire' = now'
    /\ \E g \in {IF playing
                 THEN SubTicks([players |-> players, prevAlive |-> prevAlive,
                                playing |-> TRUE, crashed |-> FALSE, subTicks |-> 0,
                                diedAt |-> << >>, over |-> FALSE, winners |-> << >>,
                                scored |-> << >>, maxGrowth |-> 0],
                               order, 0, lastTickEndTimestamp)
                 ELSE [players |-> players, prevAlive |-> prevAlive,
                       playing |-> FALSE, crashed |-> FALSE, subTicks |-> 0,
                       diedAt |-> << >>, over |-> FALSE, winners |-> << >>,
                       scored |-> << >>, maxGrowth |-> 0]} :
       \E to \in {IF g.crashed THEN {} ELSE Receivers(g.players, playing)} :
       \E sent \in {[c \in to |-> GameStateMessage(g.players, c)]} :
           /\ players' = SendAll(g.players, to)
           /\ prevAlive' = g.prevAlive
           /\ playing' = g.playing
           /\ crashed' = g.crashed
           /\ lastTickEndTimestamp' =
                  IF playing /\ ~g.crashed THEN now' ELSE lastTickEndTimestamp
           /\ ev' = [NoEvent EXCEPT !.op = "gameLoop", !.subTicks = g.subTicks,
                        !.diedAt = g.diedAt, !.over = g.over, !.scored = g.scored,
                        !.winners = g.winners, !.maxGrowth = g.maxGrowth,
                        !.redrawn = asked, !.base = lastTickEndTimestamp,
                        !.emitted = [k \in 1 .. Len(g.scored) |->
                                        Event("modify_player", g.scored[k])],
                        !.sent = sent]
           /\ copy' = Copies(copy, players', sent, {})
           /\ asked' = asked \ to
    /\ UNCHANGED << order, used >>

Next ==
    \/ \E id \in Ids : AddPlayer(id)
    \/ \E id \in Ids : RemovePlayer(id)
    \/ \E id \in Ids, direction \in Direction, dt \in {0, ClockStep} :
          ProcessInput(id, direction, dt)
    \/ \E id \in Ids : Redraw(id)
    \/ StartRound
    \/ GameLoop

Spec == Init /\ [][Next]_vars

---------------------------------------------------------------------------
(* The engine of src/unnamed/part_005: a countdown between start and Playing, *)
(* turns applied as they arrive. segmentToPartitions, lineToLineCollision,    *)
(* addSegment, extendLastSegment, removePlayer and redraw are the same code   *)
(* in both files.                                                             *)

tickRateCd == 30
subTickRateCd == 2
TickMsCd == 1000 \div tickRateCd

MaxCountdowns == 2     \* countdown callbacks pending at once

\* Spawn points and directions Math.random() may produce
SpawnsCd == {spawn \in {<< 0, 0, Right >>, << 26, 0, Left >>} : InSpawnArea(spawn)}

\* The sources whose slice for the receiver is not empty
SentCd(ps, receiver, sources) ==
    {s \in sources : Slice(ps[s].segments, Watermark(ps, receiver, s)) # << >>}

GameStateMessageCd(ps, receiver, sources) ==
    [s \in SentCd(ps, receiver, sources) |->
        [w |-> Watermark(ps, receiver, s),
         segs |-> Slice(ps[s].segments, Watermark(ps, receiver, s))]]

\* sendGameState(receiver, sources): the table after it
sendGameStateCd(ps, receiver, sources) ==
    [ps EXCEPT ![receiver].lastSentSegmentIndices =
        [k \in DOMAIN @ \cup SentCd(ps, receiver, sources) |->
            IF k \in SentCd(ps, receiver, sources)
            THEN Len(ps[k].segments) - 1 ELSE @[k]]]

addPlayerCd(ps, id) ==
    LET before == IF id \notin DOMAIN ps
                  THEN [k \in DOMAIN ps \cup {id} |-> IF k = id THEN NewPlayer ELSE ps[k]]
                  ELSE redraw(ps, id)
    IN  sendGameStateCd(before, id, DOMAIN before)

AddPlayerCd(id) ==
    /\ ~crashed
    /\ id \in DOMAIN players => used < MaxEvents
    /\ used' = IF id \in DOMAIN players THEN used + 1 ELSE used
    /\ players' = addPlayerCd(players, id)
    /\ order' = IF id \in DOMAIN players THEN order ELSE Append(order, id)
    /\ ev' = [NoEvent EXCEPT !.op = "addPlayer", !.id = id,
                 !.emitted = IF id \in DOMAIN players THEN << >>
                             ELSE << Event("modify_player", id) >>]
    /\ UNCHANGED << playing, prevAlive, lastTickEndTimestamp, now, lastFire, crashed,
                    copy, asked, countdowns, sessions, deletions, sockets >>

processInputCd(ps, id, direction, isPlaying) ==
    IF id \notin DOMAIN ps THEN ps
    ELSE IF ~isPlaying THEN [ps EXCEPT ![id].startingDirection = direction]
    ELSE IF ps[id].dead THEN ps
    ELSE addSegment(ps, id, direction)

ProcessInputCd(id, direction) ==
    /\ ~crashed
    /\ used < MaxEvents
    /\ used' = used + 1
    /\ players' = processInputCd(players, id, direction, playing)
    /\ ev' = [NoEvent EXCEPT !.op = "processInput", !.id = id]
    /\ UNCHANGED << order, playing, prevAlive, lastTickEndTimestamp, now, lastFire,
                    crashed, copy, asked, countdowns, sessions, deletions, sockets >>

\* The respawn loop of startRound: a seed segment of length lineWidth
RespawnCd(ps, spawn) ==
    [id \in DOMAIN ps |->
        LET startPoint == << spawn[id][1], spawn[id][2] >>
            directionVector == directionToVector(spawn[id][3])
            endPoint == << startPoint[1] + directionVector[1] * lineWidth,
                           startPoint[2] + directionVector[2] * lineWidth >>
            segment == << startPoint, endPoint >>
        IN  [ps[id] EXCEPT
                !.direction = spawn[id][3],
                !.segments = << segment >>,
                !.fieldPartitions =
                    {<< partition, 0 >> : partition \in Range(segmentToPartitions(segment))},
                !.dead = FALSE,
                !.lastSentSegmentIndices =
                    [k \in DOMAIN @ \cup DOMAIN ps |-> IF k \in DOMAIN ps THEN 0 ELSE @[k]]]]

\* startRound: the guard does not look at a countdown in progress
StartRoundCd ==
    /\ ~crashed
    /\ IF startRoundRefused(players, playing)
       THEN /\ ev' = [NoEvent EXCEPT !.op = "startRound"]
            /\ UNCHANGED << players, prevAlive, countdowns >>
       ELSE /\ countdowns < MaxCountdowns
            /\ \E spawn \in [DOMAIN players -> SpawnsCd] :
                  players' = RespawnCd(players, spawn)
            /\ ev' = [NoEvent EXCEPT !.op = "startRound",
                                     !.emitted = << Event("starting", 0) >>]
            /\ prevAlive' = order
            /\ countdowns' = countdowns + 1
    /\ UNCHANGED << order, playing, lastTickEndTimestamp, now, lastFire, crashed, copy,
                    asked, used, sessions, deletions, sockets >>

\* The loop of the setTimeout callback over the players ord[k..]:
\* r = [players, crashed]; segments[0][0] of an empty list throws
RECURSIVE ApplyStartingDirections(_, _, _)
ApplyStartingDirections(r, ord, k) ==
    IF k > Len(ord) \/ r.crashed THEN r
    ELSE
        LET id == ord[k]
            player == r.players[id]
            directionVector == directionToVector(player.startingDirection)
            startPoint == player.segments[1][1]
            endPoint == << startPoint[1] + directionVector[1] * lineWidth,
                           startPoint[2] + directionVector[2] * lineWidth >>
        IN  IF player.startingDirection = Null
            THEN ApplyStartingDirections(r, ord, k + 1)
            ELSE IF player.segments = << >>
            THEN [r EXCEPT !.crashed = TRUE]
            ELSE ApplyStartingDirections(
                     [r EXCEPT !.players[id].direction = player.startingDirection,
                               !.players[id].segments = << << startPoint, endPoint >> >>],
                     ord, k + 1)

\* A setTimeout callback of startRound runs, 3000 ms after it was scheduled
CountdownDone ==
    /\ ~crashed
    /\ countdowns > 0
    /\ countdowns' = countdowns - 1
    /\ \E r \in {ApplyStartingDirections([players |-> players, crashed |-> FALSE],
                                         order, 1)} :
          /\ players' = r.players
          /\ crashed' = r.crashed
          /\ playing' = IF r.crashed THEN playing ELSE TRUE
    /\ ev' = [NoEvent EXCEPT !.op = "countdown"]
    /\ UNCHANGED << order, prevAlive, lastTickEndTimestamp, now, lastFire, copy, asked,
                    used, sessions, deletions, sockets >>

\* processSubTick for the players ord[k..]: r = [players, crashed, alive]
RECURSIVE SubTickPlayersCd(_, _, _)
SubTickPlayersCd(r, ord, k) ==
    IF k > Len(ord) \/ r.crashed THEN r
    ELSE
        LET id == ord[k]
        IN  IF r.players[id].dead
            THEN SubTickPlayersCd(r, ord, k + 1)
            ELSE SubTickPlayersCd(WithAlive(extendLastSegment(r.players, ord, id,
                                                              tickRateCd * subTickRateCd),
                                            Append(r.alive, id)),
                                  ord, k + 1)

processSubTickCd(ps, ord) ==
    SubTickPlayersCd([players |-> ps, crashed |-> FALSE, alive |-> << >>], ord, 1)

\* The sub-tick loop of gameLoop; g as for SubTicks
RECURSIVE SubTicksCd(_, _, _)
RECURSIVE SubTickDoneCd(_, _, _, _)

\* One iteration of the sub-tick loop after processSubTick has returned r
SubTickDoneCd(g, ord, i, r) ==
        LET died == {id \in DOMAIN g.players : ~g.players[id].dead /\ r.players[id].dead}
            diedAt == [id \in DOMAIN g.diedAt \cup died |->
                          IF id \in DOMAIN g.diedAt THEN g.diedAt[id] ELSE i]
            g1 == [g EXCEPT !.players = r.players, !.subTicks = i + 1, !.diedAt = diedAt]
            winners == IF Len(r.alive) = 1 THEN r.alive ELSE g.prevAlive
            sc == ScoreWinners([players |-> r.players, crashed |-> FALSE, scored |-> << >>],
                               winners, 1)
        IN  IF r.crashed THEN [g1 EXCEPT !.crashed = TRUE]
            ELSE IF Len(r.alive) <= 1
            THEN [g1 EXCEPT !.playing = FALSE,
                            !.over = TRUE,
                            !.winners = winners,
                            !.players = sc.players,
                            !.scored = sc.scored,
                            !.crashed = sc.crashed,
                            !.prevAlive = IF sc.crashed THEN g.prevAlive ELSE r.alive]
            ELSE SubTicksCd([g1 EXCEPT !.prevAlive = r.alive], ord, i + 1)

SubTicksCd(g, ord, i) ==
    IF i >= subTickRateCd THEN g
    ELSE SubTickDoneCd(g, ord, i, processSubTickCd(g.players, ord))

\* The send loop of gameLoop over the receivers `to`
RECURSIVE SendAllCd(_, _, _)
SendAllCd(ps, to, wasPlaying) ==
    IF to = {} THEN ps
    ELSE LET id == CHOOSE c \in to : TRUE
             cleared == [ps EXCEPT ![id].pendingRedraw = FALSE,
                                   ![id].startingDirection =
                                       IF wasPlaying THEN Null ELSE @]
         IN  SendAllCd(sendGameStateCd(cleared, id, DOMAIN ps), to \ {id}, wasPlaying)

GameLoopCd ==
    /\ ~crashed
    /\ lastFire < MaxTicks * TickMsCd
    /\ lastFire' = lastFire + TickMsCd
    /\ now' = lastFire'
    /\ \E g \in {IF playing
                 THEN SubTicksCd([players |-> players, prevAlive |-> prevAlive,
                                  playing |-> TRUE, crashed |-> FALSE, subTicks |-> 0,
                                  diedAt |-> << >>, over |-> FALSE, winners |-> << >>,
                                  scored |-> << >>, maxGrowth |-> 0],
                                 order, 0)
                 ELSE [players |-> players, prevAlive |-> prevAlive,
                       playing |-> FALSE, crashed |-> FALSE, subTicks |-> 0,
                       diedAt |-> << >>, over |-> FALSE, winners |-> << >>,
                       scored |-> << >>, maxGrowth |-> 0]} :
       \E to \in {IF g.crashed THEN {} ELSE Receivers(g.players, playing)} :
           /\ players' = SendAllCd(g.players, to, playing)
           /\ prevAlive' = g.prevAlive
           /\ playing' = g.playing
           /\ crashed' = g.crashed
           /\ ev' = [NoEvent EXCEPT !.op = "gameLoop", !.subTicks = g.subTicks,
                        !.diedAt = g.diedAt, !.over = g.over, !.scored = g.scored,
                        !.winners = g.winners,
                        !.emitted = [k \in 1 .. (2 * Len(g.scored)) |->
                                        IF k % 2 = 1 THEN Event("round_over", 0)
                                        ELSE Event("modify_player", g.scored[k \div 2])],
                        !.sent = [c \in to |->
                                    GameStateMessageCd(g.players, c, DOMAIN g.players)]]
    /\ UNCHANGED << order, lastTickEndTimestamp, copy, asked, used, countdowns,
                    sessions, deletions, sockets >>

NextCountdown ==
    \/ \E id \in Ids : AddPlayerCd(id)
    \/ \E id \in Ids : RemovePlayer(id)
    \/ \E id \in Ids, direction \in Direction : ProcessInputCd(id, direction)
    \/ \E id \in Ids : Redraw(id)
    \/ StartRoundCd
    \/ CountdownDone
    \/ GameLoopCd

SpecCountdown == Init /\ [][NextCountdown]_vars

---------------------------------------------------------------------------
(* The session layer of src/src/server/server.ts over the engine of game.ts.  *)
(* A session is [userID, pendingDeletion, present]: present is FALSE once the *)
(* session has been deleted from the map (a socket's handlers keep the object *)
(* they captured). randomID() mints the next unused number, for the session   *)
(* id and the user id alike.                                                  *)

\* SessionManager.getSession(sessionID) is defined
HasSession(sessionID) ==
    sessionID \in DOMAIN sessions /\ sessions[sessionID].present

\* SessionManager.createSession: the map after it
createSession(ss) ==
    LET sessionID == Len(ss) + 1
    IN  Append(ss, [userID |-> sessionID, pendingDeletion |-> FALSE, present |-> TRUE])

\* SessionManager.markForDeletion
markForDeletion(ss, sessionID) ==
    IF sessionID \in DOMAIN ss /\ ss[sessionID].present
    THEN [ss EXCEPT ![sessionID].pendingDeletion = TRUE] ELSE ss

\* The callback of scheduleDeletion
deleteIfPending(ss, sessionID) ==
    IF sessionID \in DOMAIN ss /\ ss[sessionID].present /\ ss[sessionID].pendingDeletion
    THEN [ss EXCEPT ![sessionID].present = FALSE] ELSE ss

\* The middleware without its username test: any handshake that names no
\* session of the store gets a new session
ConnectWithoutUsernameTest(sessionID, hasUsername) ==
    /\ ~crashed
    /\ IF sessionID # 0 /\ HasSession(sessionID)
       THEN /\ sessionID \notin sockets
            /\ used < MaxEvents
            /\ used' = used + 1
            /\ sockets' = sockets \cup {sessionID}
            /\ ev' = [NoEvent EXCEPT !.op = "connect", !.id = sessionID,
                                     !.emitted = << Event("session", sessionID) >>]
            /\ UNCHANGED sessions
       ELSE /\ Len(sessions) < NumIds
            /\ sessions' = createSession(sessions)
            /\ sockets' = sockets \cup {Len(sessions')}
            /\ ev' = [NoEvent EXCEPT !.op = "connect", !.id = Len(sessions'),
                                     !.emitted = << Event("session", Len(sessions')) >>]
            /\ UNCHANGED used
    /\ UNCHANGED << players, order, playing, prevAlive, lastTickEndTimestamp, now,
                    lastFire, crashed, copy, asked, countdowns, deletions >>

\* A client connects: the io.use middleware, then the connection handler.
\* sessionID 0 stands for a handshake without a session id. A session has at
\* most one connected socket at a time.
Connect(sessionID, hasUsername) ==
    /\ ~crashed
    /\ IF sessionID # 0 /\ HasSession(sessionID)
       THEN /\ sessionID \notin sockets
            /\ used < MaxEvents
            /\ used' = used + 1
            /\ sockets' = sockets \cup {sessionID}
            /\ ev' = [NoEvent EXCEPT !.op = "connect", !.id = sessionID,
                                     !.emitted = << Event("session", sessionID) >>]
            /\ UNCHANGED sessions
       ELSE IF ~hasUsername
       THEN /\ ev' = [NoEvent EXCEPT !.op = "connect", !.id = sessionID,
                                     !.emitted = << Event("invalid session", 0) >>]
            /\ UNCHANGED << sessions, sockets, used >>
       ELSE /\ Len(sessions) < NumIds
            /\ sessions' = createSession(sessions)
            /\ sockets' = sockets \cup {Len(sessions')}
            /\ ev' = [NoEvent EXCEPT !.op = "connect", !.id = Len(sessions'),
                                     !.emitted = << Event("session", Len(sessions')) >>]
            /\ UNCHANGED used
    /\ UNCHANGED << players, order, playing, prevAlive, lastTickEndTimestamp, now,
                    lastFire, crashed, copy, asked, countdowns, deletions >>

\* socket.on("join")
Join(sessionID) ==
    /\ sessionID \in sockets
    /\ AddPlayer(sessions[sessionID].userID)

\* socket.on("input")
Input(sessionID, direction, dt) ==
    /\ sessionID \in sockets
    /\ ProcessInput(sessions[sessionID].userID, direction, dt)

\* socket.on("redraw")
RedrawRequest(sessionID) ==
    /\ sessionID \in sockets
    /\ Redraw(sessions[sessionID].userID)

\* socket.on("start")
Start(sessionID) ==
    /\ sessionID \in sockets
    /\ StartRound

\* socket.on("disconnect"): the timer entry also notes whether the user had a
\* player when the socket closed
Disconnect(sessionID) ==
    /\ ~crashed
    /\ sessionID \in sockets
    /\ used < MaxEvents
    /\ used' = used + 1
    /\ sockets' = sockets \ {sessionID}
    /\ sessions' = markForDeletion(sessions, sessionID)
    /\ LET userID == sessions[sessionID].userID
       IN  /\ deletions' = Append(deletions, [sessionID |-> sessionID,
                                              had |-> userID \in DOMAIN players])
           /\ players' = removePlayer(players, userID)
           /\ order' = SelectSeq(order, LAMBDA k : k # userID)
           /\ ev' = [NoEvent EXCEPT !.op = "disconnect", !.id = userID,
                        !.emitted = IF userID \in DOMAIN players
                                    THEN << Event("remove", userID) >> ELSE << >>]
           /\ copy' = Copies(copy, players', << >>, {userID} \cap DOMAIN players)
           /\ asked' = asked \ {userID}
    /\ UNCHANGED << playing, prevAlive, lastTickEndTimestamp, now, lastFire, crashed,
                    countdowns >>

\* The oldest scheduleDeletion timer fires (all timers have the same delay)
DeletionTimer ==
    /\ ~crashed
    /\ deletions # << >>
    /\ sessions' = deleteIfPending(sessions, Head(deletions).sessionID)
    /\ deletions' = Tail(deletions)
    /\ ev' = [NoEvent EXCEPT !.op = "deletionTimer", !.id = Head(deletions).sessionID]
    /\ UNCHANGED << players, order, playing, prevAlive, lastTickEndTimestamp, now,
                    lastFire, crashed, copy, asked, used, countdowns, sockets >>

\* socket.on("heartbeat")
Heartbeat(sessionID) ==
    /\ ~crashed
    /\ sessionID \in sockets
    /\ used < MaxEvents
    /\ used' = used + 1
    /\ sessions' = IF HasSession(sessionID)
                   THEN [sessions EXCEPT ![sessionID].pendingDeletion = FALSE]
                   ELSE sessions
    /\ ev' = [NoEvent EXCEPT !.op = "heartbeat", !.id = sessionID]
    /\ UNCHANGED << players, order, playing, prevAlive, lastTickEndTimestamp, now,
                    lastFire, crashed, copy, asked, countdowns, deletions, sockets >>

NextServer ==
    \/ \E sessionID \in 0 .. NumIds, hasUsername \in BOOLEAN : Connect(sessionID, hasUsername)
    \/ \E sessionID \in Ids : Join(sessionID)
    \/ \E sessionID \in Ids, direction \in Direction, dt \in {0, ClockStep} :
          Input(sessionID, direction, dt)
    \/ \E sessionID \in Ids : RedrawRequest(sessionID)
    \/ \E sessionID \in Ids : Start(sessionID)
    \/ \E sessionID \in Ids : Disconnect(sessionID)
    \/ \E sessionID \in Ids : Heartbeat(sessionID)
    \/ DeletionTimer
    \/ GameLoop

SpecServer == Init /\ [][NextServer]_vars

---------------------------------------------------------------------------
(* A round of two players heading toward each other on one line, no inputs *)

MaxGap == 100      \* largest starting gap between the two heads

\* x coordinates of the first player: mid-cell, and just before a cell border
HeadOnStarts == {0, 570}

InitHeadOn ==
    /\ \E x \in HeadOnStarts, gap \in 0 .. MaxGap :
          /\ InSpawnArea(<< x, 0, Right >>)
          /\ InSpawnArea(<< x + gap, 0, Left >>)
          /\ players = Respawn(addPlayer(addPlayer(<< >>, 1), 2),
                              [id \in {1, 2} |-> IF id = 1 THEN << x, 0, Right >>
                                                  ELSE << x + gap, 0, Left >>])
    /\ order = << 1, 2 >>
    /\ playing = TRUE
    /\ prevAlive = << 1, 2 >>
    /\ lastTickEndTimestamp = 0
    /\ now = 0
    /\ lastFire = 0
    /\ crashed = FALSE
    /\ ev = [NoEvent EXCEPT !.op = "startRound", !.emitted = << Event("starting", 0) >>]
    /\ copy = [c \in {1, 2} |-> [p \in {1, 2} |-> << >>]]
    /\ asked = {}
    /\ used = 0
    /\ countdowns = 0
    /\ sessions = << >>
    /\ deletions = << >>
    /\ sockets = {}

SpecHeadOn == InitHeadOn /\ [][GameLoop]_vars

---------------------------------------------------------------------------
(* Properties of the engine of game.ts *)

\* C1: when a tick ends the round, every winner (the sole alive player, else
\* every player of prevAlive) is a player and gains exactly one point, and every
\* other player's score is unchanged.
C1_RoundEndScoresWinners ==
    [][(ev'.op = "gameLoop" /\ ev'.over) =>
          /\ Range(ev'.winners) \subseteq DOMAIN players'
          /\ \A id \in DOMAIN players :
                /\ id \in DOMAIN players'
                /\ players'[id].score =
                      players[id].score + (IF id \in Range(ev'.winners) THEN 1 ELSE 0)]_vars

\* C2: two players alone, head-on on one line, no inputs: whenever one of them
\* dies in a tick the other dies in the same sub-tick, and once the round has
\* ended both have received one point.
C2_HeadOnTie ==
    /\ DOMAIN ev.diedAt # {} =>
          /\ DOMAIN ev.diedAt = {1, 2}
          /\ ev.diedAt[1] = ev.diedAt[2]
    /\ ~playing => players[1].score = 1 /\ players[2].score = 1

\* C5: a client that asked for a redraw during Playing receives, in the next
\* tick that completes, a game_state holding every player's whole segment list.
C5_RedrawResync ==
    (ev.op = "gameLoop" /\ ~crashed) =>
        \A c \in ev.redrawn :
            /\ c \in DOMAIN ev.sent
            /\ \A p \in DOMAIN players :
                  /\ p \in DOMAIN ev.sent[c]
                  /\ ev.sent[c][p].segs = players[p].segments

\* C5 witness: a playing tick has answered a redraw with a trail of two segments
C5_Witness ==
    /\ ev.op = "gameLoop"
    /\ ~crashed
    /\ ev.subTicks > 0
    /\ \E c \in ev.redrawn : \E p \in DOMAIN players :
          /\ Len(players[p].segments) >= 2
          /\ ev.sent[c][p].segs = players[p].segments

\* C6: after the send of every tick, the copy of a client that was sent a
\* game_state, kept by overwriting from the watermark, equals every trail.
C6_CopyEqualsTrail ==
    ev.op = "gameLoop" =>
        \A c \in DOMAIN ev.sent : \A p \in DOMAIN players :
            copy[c][p] = players[p].segments

\* C6 witness: a tick sent a slice from a watermark past 0, and the snapped
\* trail of a player that died in it
C6_Witness ==
    /\ ev.op = "gameLoop"
    /\ \E c \in DOMAIN ev.sent : \E p \in DOMAIN players : ev.sent[c][p].w >= 1
    /\ \E q \in DOMAIN ev.diedAt : \E c \in DOMAIN ev.sent :
          /\ players[q].dead
          /\ copy[c][q] = players[q].segments

\* No watermark of a client that stays in the table goes down in this step
WatermarksKept ==
    \A c \in DOMAIN players \cap DOMAIN players' :
        \A p \in DOMAIN players[c].lastSentSegmentIndices
                 \cap DOMAIN players'[c].lastSentSegmentIndices :
            players'[c].lastSentSegmentIndices[p] >= players[c].lastSentSegmentIndices[p]

\* C7 as stated: no step other than a redraw (alone or as part of a re-join)
\* lowers a watermark.
C7_WatermarksMonotone ==
    [][ev'.op \in {"redraw", "addPlayer"} \/ WatermarksKept]_vars

\* C7 amended: no step other than a redraw, a (re-)join or a round start
\* lowers a watermark.
C7_WatermarksMonotoneButStart ==
    [][ev'.op \in {"redraw", "addPlayer", "startRound"} \/ WatermarksKept]_vars

\* C7 witness: a tick has raised a watermark above 0
C7_Witness ==
    /\ ev.op = "gameLoop"
    /\ \E c \in DOMAIN players : \E p \in DOMAIN players[c].lastSentSegmentIndices :
          players[c].lastSentSegmentIndices[p] >= 1

\* C8: a start with fewer than two players, or while Playing, changes no
\* player and no round state and emits nothing.
C8_StartRefusedIsNoOp ==
    [][(ev'.op = "startRound" /\ (playing \/ Cardinality(DOMAIN players) < 2)) =>
          /\ players' = players
          /\ playing' = playing
          /\ prevAlive' = prevAlive
          /\ ev'.emitted = << >>]_vars

\* C8 witness: a start was refused while two players were Playing
C8_Witness ==
    /\ ev.op = "startRound"
    /\ ev.emitted = << >>
    /\ playing
    /\ Cardinality(DOMAIN players) >= 2

\* The sub-tick whose window holds time t, counted from the last tick's end
WindowOf(t) == (t - lastTickEndTimestamp) \div SubTickMs

\* Player p is alive with exactly two queued inputs, both in one sub-tick
\* window of the coming tick, the first of them a legal turn
TwoInOneWindow(p) ==
    LET q == players[p].pendingDirectionInputs
    IN  /\ ~players[p].dead
        /\ Len(q) = 2
        /\ WindowOf(q[1].receivedTimestamp) = WindowOf(q[2].receivedTimestamp)
        /\ WindowOf(q[1].receivedTimestamp) \in 0 .. (subTickRate - 1)
        /\ q[1].direction # players[p].direction
        /\ q[1].direction # oppositeDirection(players[p].direction)

---------------------------------------------------------------------------
(* Properties of the engine of part_005 *)

\* C3: a dead player's segment list is changed by no step other than an
\* accepted round start.
C3_DeathIsTerminal ==
    [][\A p \in DOMAIN players \cap DOMAIN players' :
          (players[p].dead /\ ~(ev'.op = "startRound" /\ ev'.emitted # << >>)) =>
              players'[p].segments = players[p].segments]_vars

\* C9: a start received while a countdown callback is pending respawns no
\* player, emits no starting event and schedules no further callback.
C9_StartOnlyInIdle ==
    [][(ev'.op = "startRound" /\ countdowns > 0) =>
          /\ players' = players
          /\ ev'.emitted = << >>
          /\ countdowns' = countdowns]_vars

---------------------------------------------------------------------------
(* Properties of the session layer *)

\* C4: a client that is connected again while the deletion timer of its
\* disconnect is still pending, and that had a player when it disconnected,
\* still has that player (no remove was emitted for it).
C4_ReconnectKeepsPlayer ==
    \A k \in 1 .. Len(deletions) :
        (deletions[k].sessionID \in sockets /\ deletions[k].had) =>
            sessions[deletions[k].sessionID].userID \in DOMAIN players

---------------------------------------------------------------------------
(* Properties of the input queue of game.ts *)

\* A queued input that is no turn for the player: its own direction or the
\* opposite one
NoTurn(p, input) ==
    \/ input.direction = players[p].direction
    \/ input.direction = oppositeDirection(players[p].direction)

\* The input was received inside one of the first n sub-tick windows after base
InWindows(input, base, n) ==
    /\ input.receivedTimestamp >= base
    /\ input.receivedTimestamp < base + n * SubTickMs

\* C11: a live player whose queued inputs are all its own or the opposite
\* direction, one of them inside a window the tick processes, and who lives
\* through the tick: the tick adds no segment, keeps the direction, and leaves
\* no input of a processed window in the queue.
C11_IllegalTurnRejected ==
    [][(ev'.op = "gameLoop" /\ playing /\ ~crashed') =>
          \A p \in DOMAIN players :
              LET q == players[p].pendingDirectionInputs
                  q2 == players'[p].pendingDirectionInputs
              IN  (/\ ~players[p].dead
                   /\ ~players'[p].dead
                   /\ \A k \in 1 .. Len(q) : NoTurn(p, q[k])
                   /\ \E k \in 1 .. Len(q) :
                         InWindows(q[k], lastTickEndTimestamp, ev'.subTicks)) =>
                      /\ Len(players'[p].segments) = Len(players[p].segments)
                      /\ players'[p].direction = players[p].direction
                      /\ \A k \in 1 .. Len(q2) :
                            ~InWindows(q2[k], lastTickEndTimestamp, ev'.subTicks)]_vars

\* C11, the part about the trail: under the same conditions the tick adds no
\* segment and keeps the direction.
C11_IllegalTurnAddsNothing ==
    [][(ev'.op = "gameLoop" /\ playing /\ ~crashed') =>
          \A p \in DOMAIN players :
              LET q == players[p].pendingDirectionInputs
              IN  (/\ ~players[p].dead
                   /\ \A k \in 1 .. Len(q) : NoTurn(p, q[k])) =>
                      /\ Len(players'[p].segments) = Len(players[p].segments)
                      /\ players'[p].direction = players[p].direction]_vars

---------------------------------------------------------------------------
(* A round in which one client repeats inputs faster than the server ticks: *)
(* two players on separate rows heading Right, far from each other and from *)
(* the border                                                               *)

MaxQueue == 11     \* inputs one player may have queued

InitBurst ==
    /\ players = Respawn(addPlayer(addPlayer(<< >>, 1), 2),
                        [id \in {1, 2} |-> IF id = 1 THEN << 0, 0, Right >>
                                            ELSE << 0, 1000, Right >>])
    /\ \A id \in {1, 2} : InSpawnArea(<< players[id].segments[1][1][1],
                                        players[id].segments[1][1][2], Right >>)
    /\ order = << 1, 2 >>
    /\ playing = TRUE
    /\ prevAlive = << 1, 2 >>
    /\ lastTickEndTimestamp = 0
    /\ now = 0
    /\ lastFire = 0
    /\ crashed = FALSE
    /\ ev = [NoEvent EXCEPT !.op = "startRound", !.emitted = << Event("starting", 0) >>]
    /\ copy = [c \in {1, 2} |-> [p \in {1, 2} |-> << >>]]
    /\ asked = {}
    /\ used = 0
    /\ countdowns = 0
    /\ sessions = << >>
    /\ deletions = << >>
    /\ sockets = {}

\* processInput(id, direction), called as soon as the previous event is handled
BurstInput(id, direction) ==
    /\ ~crashed
    /\ EngineOnly
    /\ id \in DOMAIN players
    /\ Len(players[id].pendingDirectionInputs) < MaxQueue
    /\ players' = processInput(players, id, direction, now)
    /\ ev' = [NoEvent EXCEPT !.op = "processInput", !.id = id]
    /\ UNCHANGED << order, playing, prevAlive, lastTickEndTimestamp, now, lastFire,
                    crashed, copy, asked, used >>

NextBurst ==
    \/ \E direction \in {Right, Up} : BurstInput(1, direction)
    \/ GameLoop

SpecBurst == InitBurst /\ [][NextBurst]_vars

\* C12: after a tick of a round, no player has more than subTickRate inputs
\* left in its queue (the tick queues none, so all of them are from before it).
C12_BoundedQueue ==
    [][(ev'.op = "gameLoop" /\ playing /\ ~crashed') =>
          \A p \in DOMAIN players' :
              Len(players'[p].pendingDirectionInputs) <= subTickRate]_vars

---------------------------------------------------------------------------
(* A round some ticks old in which player 1 has travelled straight from its *)
(* spawn point to within reach of a border; player 2 travels far from it.   *)
(* The clock's origin is the last tick end.                                 *)

MaxBorderDist == 35      \* largest distance between player 1's head and the border ahead
TravelledSubTicks == 67  \* sub-ticks both players have travelled since the round start

\* The length extendLastSegment adds in one sub-tick of game.ts
StepLength == moveSpeed \div (tickRate * subTickRate)

\* The point at distance d before the border a player heading `direction` faces,
\* on the middle row or column
FacingBorder(direction, d) ==
    CASE direction = Right -> << aspectRatio - d, 0 >>
      [] direction = Left  -> << d - aspectRatio, 0 >>
      [] direction = Up    -> << 0, fieldHeight - d >>
      [] direction = Down  -> << 0, d - fieldHeight >>

\* A player spawned by startRound at `start` heading `direction` after n
\* sub-ticks of extendLastSegment without a turn
Travelled(player, start, direction, n) ==
    LET v == directionToVector(direction)
        head == << start[1] + v[1] * n * StepLength, start[2] + v[2] * n * StepLength >>
    IN  [player EXCEPT
            !.segments = << << start, head >> >>,
            !.fieldPartitions =
                {<< pointToPartition(start), 0 >>}
                    \cup {<< pt, 0 >> : pt \in Range(segmentToPartitions(<< start, head >>))},
            !.direction = direction,
            !.dead = FALSE]

InitBorder ==
    /\ \E direction \in Direction, d \in 0 .. MaxBorderDist :
          LET v == directionToVector(direction)
              head == FacingBorder(direction, d)
              start == << head[1] - v[1] * TravelledSubTicks * StepLength,
                          head[2] - v[2] * TravelledSubTicks * StepLength >>
              spawned == Respawn(addPlayer(addPlayer(<< >>, 1), 2),
                                 [id \in {1, 2} |-> IF id = 1
                                                     THEN << start[1], start[2], direction >>
                                                     ELSE << 600, -600, Up >>])
          IN  /\ InSpawnArea(<< start[1], start[2], direction >>)
              /\ InSpawnArea(<< 600, -600, Up >>)
              \* the extensions so far have found every partition in the index
              /\ Range(segmentToPartitions(<< start, head >>))
                    \subseteq 0 .. (numPartitions * numPartitions - 1)
              /\ players = [id \in {1, 2} |->
                               IF id = 1
                               THEN Travelled(spawned[1], start, direction, TravelledSubTicks)
                               ELSE Travelled(spawned[2], << 600, -600 >>, Up,
                                              TravelledSubTicks)]
    /\ order = << 1, 2 >>
    /\ playing = TRUE
    /\ prevAlive = << 1, 2 >>
    /\ lastTickEndTimestamp = 0
    /\ now = 0
    /\ lastFire = 0
    /\ crashed = FALSE
    /\ ev = [NoEvent EXCEPT !.op = "gameLoop", !.subTicks = subTickRate]
    /\ copy = [c \in {1, 2} |-> [p \in {1, 2} |-> players[p].segments]]
    /\ asked = {}
    /\ used = 0
    /\ countdowns = 0
    /\ sessions = << >>
    /\ deletions = << >>
    /\ sockets = {}

NextBorder ==
    \/ \E id \in Ids, direction \in Direction, dt \in {0, ClockStep} :
          ProcessInput(id, direction, dt)
    \/ GameLoop

SpecBorder == InitBorder /\ [][NextBorder]_vars

\* The head end point of a player that has a trail
HeadOf(p) == players[p].segments[Len(players[p].segments)][2]

OutsideField(point) ==
    \/ point[1] < -aspectRatio \/ point[1] > aspectRatio
    \/ point[2] < -fieldHeight \/ point[2] > fieldHeight

\* The distance from the point to the border ahead in `direction`
DistanceAhead(point, direction) ==
    CASE direction = Right -> aspectRatio - point[1]
      [] direction = Left  -> point[1] + aspectRatio
      [] direction = Up    -> fieldHeight - point[2]
      [] direction = Down  -> point[2] + fieldHeight

\* C13: a player whose head lies outside the field is dead; a live player that
\* travels straight through a tick dies in the first sub-tick whose extension
\* takes its head past the border ahead, with the head left where that
\* extension put it; and a player whose head is inside the field after the
\* tick (no other trail being near) is alive.
C13_BoundaryDeath ==
    [][(ev'.op = "gameLoop" /\ playing /\ ~crashed') =>
          \A p \in DOMAIN players :
              LET d == DistanceAhead(HeadOf(p), players[p].direction)
                  j == d \div StepLength
                  v == directionToVector(players[p].direction)
                  head2 == players'[p].segments[Len(players'[p].segments)][2]
              IN  /\ OutsideField(head2) => players'[p].dead
                  /\ (~players[p].dead /\ ~OutsideField(head2)) => ~players'[p].dead
                  /\ (/\ ~players[p].dead
                      /\ players[p].pendingDirectionInputs = << >>
                      /\ j < ev'.subTicks) =>
                         /\ players'[p].dead
                         /\ ev'.diedAt[p] = j
                         /\ head2 = << HeadOf(p)[1] + v[1] * (j + 1) * StepLength,
                                       HeadOf(p)[2] + v[2] * (j + 1) * StepLength >>]_vars

\* C13 witness: a tick has left a player dead with its head just outside the
\* field, killed in a sub-tick after the first, and the other player alive
C13_Witness ==
    /\ ev.op = "gameLoop"
    /\ ~crashed
    /\ \E p \in DOMAIN players :
          /\ players[p].dead
          /\ OutsideField(HeadOf(p))
          /\ p \in DOMAIN ev.diedAt
          /\ ev.diedAt[p] > 0
          /\ \E p2 \in DOMAIN players : ~players[p2].dead /\ ~OutsideField(HeadOf(p2))

---------------------------------------------------------------------------
(* A round just started in which player 1 turns several times within a tick; *)
(* player 2 travels straight, far from it                                    *)

MaxTurns == 3      \* inputs player 1 sends in a run

\* Spawns of player 1: on a corner of the partition grid, and inside a cell
TurnStarts == {spawn \in {<< 0, 0, Up >>, << 0, 0, Right >>, << 300, 200, Right >>} :
                  InSpawnArea(spawn)}

InitTurns ==
    /\ \E spawn \in TurnStarts :
          players = Respawn(addPlayer(addPlayer(<< >>, 1), 2),
                            [id \in {1, 2} |-> IF id = 1 THEN spawn
                                                ELSE << 0, 1000, Right >>])
    /\ InSpawnArea(<< 0, 1000, Right >>)
    /\ order = << 1, 2 >>
    /\ playing = TRUE
    /\ prevAlive = << 1, 2 >>
    /\ lastTickEndTimestamp = 0
    /\ now = 0
    /\ lastFire = 0
    /\ crashed = FALSE
    /\ ev = [NoEvent EXCEPT !.op = "startRound", !.emitted = << Event("starting", 0) >>]
    /\ copy = [c \in {1, 2} |-> [p \in {1, 2} |-> << >>]]
    /\ asked = {}
    /\ used = 0
    /\ countdowns = 0
    /\ sessions = << >>
    /\ deletions = << >>
    /\ sockets = {}

\* processInput(1, direction), received dt after the last event
TurnInput(direction, dt) ==
    /\ ~crashed
    /\ EngineOnly
    /\ used < MaxTurns
    /\ used' = used + 1
    /\ now + dt <= lastFire + TickMs
    /\ now' = now + dt
    /\ players' = processInput(players, 1, direction, now')
    /\ ev' = [NoEvent EXCEPT !.op = "processInput", !.id = 1]
    /\ UNCHANGED << order, playing, prevAlive, lastTickEndTimestamp, lastFire,
                    crashed, copy, asked >>

NextTurns ==
    \/ \E direction \in Direction, dt \in {0, SubTickMs, 2 * SubTickMs} :
          TurnInput(direction, dt)
    \/ GameLoop

SpecTurns == InitTurns /\ [][NextTurns]_vars

\* The player table after the first n sub-ticks of the coming tick
RECURSIVE AfterSubTicks(_, _)
AfterSubTicks(ps, n) ==
    IF n = 0 THEN [players |-> ps, crashed |-> FALSE]
    ELSE LET r == AfterSubTicks(ps, n - 1)
         IN  IF r.crashed THEN r
             ELSE processSubTick(r.players, order, n - 1, lastTickEndTimestamp)

\* Player p of table ps as extendLastSegment finds it in sub-tick i: after the
\* turn of that sub-tick, if it has one
TurnedIn(ps, p, i) ==
    LET beginCutoff == lastTickEndTimestamp + i * SubTickMs
        found == FindInput(ps[p], beginCutoff, beginCutoff + SubTickMs)
    IN  IF found = 0 THEN ps[p]
        ELSE addSegment(ps, p, ps[p].pendingDirectionInputs[found].direction)[p]

\* The slice a player travels in one sub-tick
TravelSlice(player) ==
    LET end == player.segments[Len(player.segments)][2]
        v == directionToVector(player.direction)
    IN  << end, << end[1] + v[1] * StepLength, end[2] + v[2] * StepLength >> >>

\* The travel slice overlaps the fat box of an own segment two or more before
\* the head segment
OwnHit(player) ==
    \E k \in 1 .. (Len(player.segments) - 2) :
        lineToLineCollision(TravelSlice(player), player.segments[k]).hit

\* C14: in each sub-tick of the coming tick in which player 1 is alive and its
\* travel slice ends inside the field (no other player's trail being near),
\* player 1 dies exactly when the slice overlaps the fat box of an own segment
\* with headIndex - segIdx >= 2.
C14_SelfCollision ==
    (playing /\ ~crashed) =>
        \A i \in 0 .. (subTickRate - 1) :
            LET before == AfterSubTicks(players, i)
                after == AfterSubTicks(players, i + 1)
                turned == TurnedIn(before.players, 1, i)
            IN  (/\ ~after.crashed
                 /\ ~before.players[1].dead
                 /\ ~OutsideField(TravelSlice(turned)[2])) =>
                    (after.players[1].dead <=> OwnHit(turned))

\* C14, the part about the head and the segment before it: under the same
\* conditions player 1 does not die unless its slice overlaps an own segment
\* with headIndex - segIdx >= 2.
C14_NoDeathByRecentSegment ==
    (playing /\ ~crashed) =>
        \A i \in 0 .. (subTickRate - 1) :
            LET before == AfterSubTicks(players, i)
                after == AfterSubTicks(players, i + 1)
                turned == TurnedIn(before.players, 1, i)
            IN  (/\ ~after.crashed
                 /\ ~before.players[1].dead
                 /\ ~OutsideField(TravelSlice(turned)[2])
                 /\ after.players[1].dead) => OwnHit(turned)

---------------------------------------------------------------------------
(* Properties of the session layer, continued *)

\* C15: a disconnect removes no player and broadcasts no remove; when the
\* deletion timer of a session fires with pendingDeletion still set, the
\* session is deleted and its user has no player afterwards, the remove being
\* broadcast by that step; when a heartbeat has cleared pendingDeletion, the
\* timer changes neither the sessions nor the players.
C15_SessionExpiry ==
    [][/\ ev'.op = "disconnect" => (players' = players /\ ev'.emitted = << >>)
       /\ ev'.op = "deletionTimer" =>
             LET sessionID == Head(deletions).sessionID
                 userID == sessions[sessionID].userID
             IN  IF HasSession(sessionID) /\ sessions[sessionID].pendingDeletion
                 THEN /\ ~sessions'[sessionID].present
                      /\ userID \notin DOMAIN players'
                      /\ userID \in DOMAIN players =>
                            ev'.emitted = << Event("remove", userID) >>
                 ELSE /\ sessions' = sessions
                      /\ players' = players]_vars

\* C15, the half about the timer alone: a session whose pendingDeletion is
\* still set when its timer fires is deleted, and one whose flag a heartbeat
\* has cleared is kept.
C15_TimerDeletesPendingSession ==
    [][ev'.op = "deletionTimer" =>
          LET sessionID == Head(deletions).sessionID
          IN  IF HasSession(sessionID) /\ sessions[sessionID].pendingDeletion
              THEN ~sessions'[sessionID].present
              ELSE sessions' = sessions]_vars

\* C15, the player at expiry: a user whose session the timer deletes has no
\* player afterwards.
C15_ExpiredSessionHasNoPlayer ==
    [][(ev'.op = "deletionTimer" /\ sessions' # sessions) =>
          sessions[Head(deletions).sessionID].userID \notin DOMAIN players']_vars

---------------------------------------------------------------------------
(* Properties of the trails *)

Abs(x) == IF x < 0 THEN -x ELSE x

\* One of the two segments keeps its x coordinate and the other its y coordinate
AxesDiffer(s, t) ==
    \/ (s[1][1] = s[2][1] /\ t[1][2] = t[2][2])
    \/ (s[1][2] = s[2][2] /\ t[1][1] = t[2][1])

AxisAligned(s) == s[1][1] = s[2][1] \/ s[1][2] = s[2][2]

\* C17: every segment of every player has equal x coordinates or equal y
\* coordinates at its two end points.
C17_AxisAligned ==
    \A p \in DOMAIN players :
        \A i \in 1 .. Len(players[p].segments) : AxisAligned(players[p].segments[i])


---------------------------------------------------------------------------
(* Calls that name no player *)

\* C18: processInput, redraw and removePlayer called with an id that is not in
\* the player table change no engine state and emit no event.
C18_UnknownIdIgnored ==
    [][(/\ ev'.op \in {"processInput", "redraw", "removePlayer"}
        /\ ev'.id \notin DOMAIN players)
       => /\ players' = players
          /\ order' = order
          /\ playing' = playing
          /\ prevAlive' = prevAlive
          /\ lastTickEndTimestamp' = lastTickEndTimestamp
          /\ ev'.emitted = << >>
          /\ ev'.sent = << >>]_vars

\* C18 witness: during a round an input has arrived for an id with no player
C18_Witness ==
    /\ playing
    /\ Cardinality(DOMAIN players) >= 1
    /\ ev.op = "processInput"
    /\ ev.id \notin DOMAIN players


---------------------------------------------------------------------------
(* The handshake *)

Rejected ==
    /\ ev'.emitted = << Event("invalid session", 0) >>
    /\ sessions' = sessions
    /\ sockets' = sockets
    /\ players' = players

\* C19 as stated: a handshake whose session id is not in the session store is
\* rejected with "invalid session" and creates no session and no player.
C19_UnknownSessionRejected ==
    [][\A sessionID \in Ids, hasUsername \in BOOLEAN :
          (~HasSession(sessionID) /\ Connect(sessionID, hasUsername)) => Rejected]_vars

\* C19 amended: a handshake whose session id is not in the store and that gives
\* no username is rejected with "invalid session" and creates no session and
\* no player; a session is minted only by a handshake that gives a username
\* and carries no session id of the store, and it creates no player.
C19_UnknownSessionWithoutUsernameRejected ==
    [][/\ \A sessionID \in Ids :
            (~HasSession(sessionID) /\ Connect(sessionID, FALSE)) => Rejected
       /\ Len(sessions') # Len(sessions)
            => /\ \E sessionID \in 0 .. NumIds :
                     /\ sessionID = 0 \/ ~HasSession(sessionID)
                     /\ Connect(sessionID, TRUE)
               /\ Len(sessions') = Len(sessions) + 1
               /\ players' = players]_vars

\* C19 witness: a handshake carrying the id of a deleted session and no
\* username has been rejected while another session is in the store
C19_Witness ==
    /\ ev.op = "connect"
    /\ ev.emitted = << Event("invalid session", 0) >>
    /\ ev.id \in DOMAIN sessions
    /\ ~sessions[ev.id].present
    /\ \E s \in DOMAIN sessions : sessions[s].present


---------------------------------------------------------------------------
(* Ticks outside a round *)

\* C20: a scheduler tick taken while the round is not being played changes no
\* player's segments, direction, dead flag, score or spatial index; it sends
\* game_state exactly to the clients whose pendingRedraw is set and clears
\* that flag.
C20_IdleTickSimulatesNothing ==
    [][(ev'.op = "gameLoop" /\ ~playing)
       => /\ DOMAIN players' = DOMAIN players
          /\ \A p \in DOMAIN players :
                /\ players'[p].segments = players[p].segments
                /\ players'[p].direction = players[p].direction
                /\ players'[p].dead = players[p].dead
                /\ players'[p].score = players[p].score
                /\ players'[p].fieldPartitions = players[p].fieldPartitions
                /\ ~players'[p].pendingRedraw
          /\ DOMAIN ev'.sent = {c \in DOMAIN players : players[c].pendingRedraw}
          /\ ~playing'
          /\ ev'.emitted = << >>]_vars

\* C20 witness: between rounds, with a survivor still alive, a tick has run no
\* sub-tick and has sent a game_state
C20_Witness ==
    /\ ev.op = "gameLoop"
    /\ ~playing
    /\ ev.subTicks = 0
    /\ ev.sent # << >>
    /\ \E p \in DOMAIN players : ~players[p].dead /\ Len(players[p].segments) > 0


---------------------------------------------------------------------------
(* Joining *)

\* The fields of a player record other than its watermarks and pendingRedraw
GameFields(p) ==
    << p.score, p.segments, p.direction, p.dead, p.fieldPartitions,
       p.pendingDirectionInputs, p.startingDirection >>

\* A first join creates a dead player without segments, score 0, pendingRedraw
\* clear, and leaves every other player as it was
FirstJoin(id) ==
    /\ DOMAIN players' = DOMAIN players \cup {id}
    /\ players'[id].dead
    /\ players'[id].segments = << >>
    /\ players'[id].score = 0
    /\ ~players'[id].pendingRedraw
    /\ \A k \in DOMAIN players : players'[k] = players[k]

\* C21 as stated: a first join is FirstJoin; a join for an existing id changes
\* nothing of that player but its watermarks, and nothing of any other player.
C21_JoinKeepsAllButWatermarks ==
    [][ev'.op = "addPlayer"
       => IF ev'.id \notin DOMAIN players THEN FirstJoin(ev'.id)
          ELSE /\ DOMAIN players' = DOMAIN players
               /\ \A k \in DOMAIN players \ {ev'.id} : players'[k] = players[k]
               /\ GameFields(players'[ev'.id]) = GameFields(players[ev'.id])
               /\ players'[ev'.id].pendingRedraw = players[ev'.id].pendingRedraw]_vars

\* C21 amended: a first join is FirstJoin; a join for an existing id keeps that
\* player's score, segments, direction, dead flag, queue and spatial index,
\* sets its watermark for every player that has segments to that player's head
\* index, sets its pendingRedraw flag, and changes nothing of any other player.
C21_JoinSetsPendingRedraw ==
    [][ev'.op = "addPlayer"
       => IF ev'.id \notin DOMAIN players THEN FirstJoin(ev'.id)
          ELSE /\ DOMAIN players' = DOMAIN players
               /\ \A k \in DOMAIN players \ {ev'.id} : players'[k] = players[k]
               /\ GameFields(players'[ev'.id]) = GameFields(players[ev'.id])
               /\ \A k \in DOMAIN players :
                     players[k].segments # << >> =>
                        players'[ev'.id].lastSentSegmentIndices[k] = Len(players[k].segments) - 1
               /\ players'[ev'.id].pendingRedraw]_vars

\* C21 witness: a player that is alive in a round, with a trail, has joined
\* again while another player is in the table
C21_Witness ==
    /\ ev.op = "addPlayer"
    /\ ev.emitted = << >>
    /\ ev.id \in DOMAIN players
    /\ playing
    /\ ~players[ev.id].dead
    /\ players[ev.id].segments # << >>
    /\ Cardinality(DOMAIN players) >= 2


---------------------------------------------------------------------------
(* The direction chosen before the round starts *)

\* The seed the countdown callback builds for player p in direction d
SeedToward(p, d) ==
    LET startPoint == p.segments[1][1]
        directionVector == directionToVector(d)
    IN  << << startPoint, << startPoint[1] + directionVector[1] * lineWidth,
                             startPoint[2] + directionVector[2] * lineWidth >> >> >>

\* C22: when the countdown completes, a player who sent a direction during the
\* countdown has a single seed segment from its spawn point aimed in that
\* direction and moves in it, and a player who sent none keeps its spawn
\* direction and seed.  startingDirection is the engine's only record of the
\* input, so this is: the callback applies startingDirection and leaves the
\* others alone; an input sent while not playing is recorded; and an accepted
\* start leaves no startingDirection recorded from before the countdown.
C22_CountdownDirection ==
    [][/\ (ev'.op = "countdown" /\ ~crashed')
            => \A p \in DOMAIN players :
                  IF players[p].startingDirection # Null
                  THEN /\ players'[p].segments =
                              SeedToward(players[p], players[p].startingDirection)
                       /\ players'[p].direction = players[p].startingDirection
                  ELSE /\ players'[p].segments = players[p].segments
                       /\ players'[p].direction = players[p].direction
       /\ (ev'.op = "processInput" /\ ~playing /\ ev'.id \in DOMAIN players)
            => players'[ev'.id].startingDirection # Null
       /\ (ev'.op = "startRound" /\ ev'.emitted # << >>)
            => \A p \in DOMAIN players' : players'[p].startingDirection = Null]_vars


---------------------------------------------------------------------------
(* The round_over event *)

RoundOverEvents(emitted) ==
    Len(SelectSeq(emitted, LAMBDA e : e.name = "round_over"))

\* C23: the tick that ends a round emits exactly one round_over event, whatever
\* the number of winners.
C23_OneRoundOver ==
    [][(ev'.op = "gameLoop" /\ playing /\ ~playing' /\ ~crashed')
       => RoundOverEvents(ev'.emitted) = 1]_vars


---------------------------------------------------------------------------
(* Redraw twice *)

\* C24: a redraw leaves a table that a second redraw for the same client does
\* not change, and a redraw that directly follows a redraw for the same client
\* changes neither the watermarks nor the pendingRedraw flag.
C24_RedrawIdempotent ==
    [][ev'.op = "redraw"
       => /\ redraw(players', ev'.id) = players'
          /\ (ev.op = "redraw" /\ ev.id = ev'.id) => players' = players]_vars

\* C24 witness: during a round a client whose peer has turned has asked for a
\* redraw; its watermarks are 0 and its flag is set
C24_Witness ==
    /\ ev.op = "redraw"
    /\ ev.id \in DOMAIN players
    /\ playing
    /\ players[ev.id].pendingRedraw
    /\ \E k \in DOMAIN players : Len(players[k].segments) >= 2
    /\ \A k \in DOMAIN players : players[ev.id].lastSentSegmentIndices[k] = 0


---------------------------------------------------------------------------
(* When the round ends *)

\* The number of players alive once sub-tick j of the tick just taken was over
AliveAfter(j) ==
    Cardinality({p \in DOMAIN players' :
                    \/ ~players'[p].dead
                    \/ (p \in DOMAIN ev'.diedAt /\ ev'.diedAt[p] > j)})

\* C25: in a tick of a round, a sub-tick that leaves at most one player alive
\* ends the round and is the last sub-tick run, and a single winner credited
\* as survivor is alive when the round has ended.
C25_RoundEndsWhenAliveDrops ==
    [][(ev'.op = "gameLoop" /\ playing /\ ~crashed')
       => /\ \A j \in 0 .. (ev'.subTicks - 1) :
                AliveAfter(j) <= 1 => (ev'.over /\ j = ev'.subTicks - 1)
          /\ (ev'.over /\ Len(ev'.winners) = 1) => ~players'[ev'.winners[1]].dead]_vars


---------------------------------------------------------------------------
(* The calls of extendLastSegment in a tick *)

\* The table in which sub-tick i calls extendLastSegment for player id: the
\* turn of that sub-tick, if there is one, has been applied
TurnedTable(ps, id, i, lastTickEnd) ==
    LET beginCutoff == lastTickEnd + i * SubTickMs
        found == FindInput(ps[id], beginCutoff, beginCutoff + SubTickMs)
    IN  IF found = 0 THEN ps
        ELSE [addSegment(ps, id, ps[id].pendingDirectionInputs[found].direction)
                EXCEPT ![id].pendingDirectionInputs =
                            Slice(ps[id].pendingDirectionInputs, found)]

\* The calls processSubTick makes for the players ord[k..], in order: each is
\* [ps, id], the table at the call and the player extended
RECURSIVE SubTickCalls(_, _, _, _, _)
RECURSIVE SubTickCallsFrom(_, _, _, _, _, _)

SubTickCalls(r, ord, k, i, lastTickEnd) ==
    IF k > Len(ord) \/ r.crashed THEN << >>
    ELSE IF r.players[ord[k]].dead THEN SubTickCalls(r, ord, k + 1, i, lastTickEnd)
    ELSE SubTickCallsFrom(r, ord, k, i, lastTickEnd,
                          TurnedTable(r.players, ord[k], i, lastTickEnd))

\* The call for ord[k] in the table `turned`, then the calls that follow it
SubTickCallsFrom(r, ord, k, i, lastTickEnd, turned) ==
    << [ps |-> turned, id |-> ord[k]] >>
        \o SubTickCalls(WithAlive(extendLastSegment(turned, ord, ord[k],
                                                    tickRate * subTickRate),
                                  Append(r.alive, ord[k])),
                        ord, k + 1, i, lastTickEnd)

\* The calls of the sub-ticks i, i + 1, ... of a tick that starts sub-tick i
\* with the table ps
RECURSIVE TickCalls(_, _)
RECURSIVE TickCallsAfter(_, _)

TickCalls(ps, i) ==
    IF i >= subTickRate THEN << >>
    ELSE SubTickCalls([players |-> ps, crashed |-> FALSE, alive |-> << >>],
                      order, 1, i, lastTickEndTimestamp)
            \o TickCallsAfter(processSubTick(ps, order, i, lastTickEndTimestamp), i)

TickCallsAfter(r, i) ==
    IF r.crashed \/ Len(r.alive) <= 1 THEN << >> ELSE TickCalls(r.players, i + 1)

\* The slice a call moves the head over, and whether the call gets to its
\* partition loop and through it
CallSlice(c) == TravelSlice(c.ps[c.id])

CallResult(c) == extendLastSegment(c.ps, order, c.id, tickRate * subTickRate)

CallScans(c) ==
    /\ ~OutsideField(CallSlice(c)[2])
    /\ Range(segmentToPartitions(CallSlice(c))) \subseteq 0 .. (numPartitions * numPartitions - 1)

\* The tests of a call that hit, each <<j, k, i>>: partition newPartitions[j],
\* player order[k], segment index i of that player's cell, in the order the
\* three loops reach them
CallHits(c) ==
    LET parts == segmentToPartitions(CallSlice(c))
        headIndex == Len(c.ps[c.id].segments) - 1
    IN  UNION {UNION {{<< j, k, i >> :
                          i \in {i \in Cell(c.ps[order[k]].fieldPartitions, parts[j]) :
                                    /\ ~(order[k] = c.id /\ headIndex - i < 2)
                                    /\ lineToLineCollision(
                                           CallSlice(c),
                                           c.ps[order[k]].segments[i + 1]).hit}} :
                      k \in 1 .. Len(order)} :
               j \in 1 .. Len(parts)}

Earlier(t, u) ==
    \/ t[1] < u[1]
    \/ t[1] = u[1] /\ t[2] < u[2]
    \/ t[1] = u[1] /\ t[2] = u[2] /\ t[3] <= u[3]

FirstHit(c) == CHOOSE t \in CallHits(c) : \A u \in CallHits(c) : Earlier(t, u)

\* C26: in every call of extendLastSegment of the coming tick that reaches the
\* partition loop, once a test hits the player is dead and its head end point
\* is the collision start of that first hit, whatever is tested afterwards;
\* without a hit the player lives and the head is at the end of the slice.
C26_StopAtFirstHit ==
    (playing /\ ~crashed) =>
        \A n \in DOMAIN TickCalls(players, 0) :
            LET c == TickCalls(players, 0)[n]
                after == CallResult(c).players[c.id]
            IN  CallScans(c) =>
                   IF CallHits(c) = {}
                   THEN ~after.dead /\ after.segments[Len(after.segments)][2] = CallSlice(c)[2]
                   ELSE /\ after.dead
                        /\ after.segments[Len(after.segments)][2] =
                              lineToLineCollision(
                                  CallSlice(c),
                                  c.ps[order[FirstHit(c)[2]]].segments[FirstHit(c)[3] + 1]).start


\* Point q lies on the axis-aligned slice from a to b, end points included
OnSlice(a, q, b) ==
    /\ Min(a[1], b[1]) <= q[1] /\ q[1] <= Max(a[1], b[1])
    /\ Min(a[2], b[2]) <= q[2] /\ q[2] <= Max(a[2], b[2])

\* C27: in every call of extendLastSegment of the coming tick in which a
\* collision kills the player, the head end point is left on the travel slice
\* between oldEnd and newEnd, end points included.
C27_SnapOnTravelSlice ==
    (playing /\ ~crashed) =>
        \A n \in DOMAIN TickCalls(players, 0) :
            LET c == TickCalls(players, 0)[n]
                after == CallResult(c).players[c.id]
            IN  (CallScans(c) /\ after.dead) =>
                   OnSlice(CallSlice(c)[1], after.segments[Len(after.segments)][2],
                           CallSlice(c)[2])

\* C27, for the first hit alone: the collision start of the first test that
\* hits lies on the travel slice.
C27_FirstHitOnTravelSlice ==
    (playing /\ ~crashed) =>
        \A n \in DOMAIN TickCalls(players, 0) :
            LET c == TickCalls(players, 0)[n]
            IN  (CallScans(c) /\ CallHits(c) # {}) =>
                   OnSlice(CallSlice(c)[1],
                           lineToLineCollision(
                               CallSlice(c),
                               c.ps[order[FirstHit(c)[2]]].segments[FirstHit(c)[3] + 1]).start,
                           CallSlice(c)[2])


\* A test of the call's slice against every segment of every player, apart from
\* the player's own head segment and the one before it
BruteForceHit(c) ==
    \E id2 \in DOMAIN c.ps : \E i \in 0 .. (Len(c.ps[id2].segments) - 1) :
        /\ ~(id2 = c.id /\ (Len(c.ps[c.id].segments) - 1) - i < 2)
        /\ lineToLineCollision(CallSlice(c), c.ps[id2].segments[i + 1]).hit

\* C28: in every call of extendLastSegment of the coming tick that reaches the
\* partition loop, the player dies exactly when its slice's fat box overlaps
\* the fat box of some segment of some player other than the self-skip pairs:
\* the cells of the slice reach every such segment.
C28_IndexComplete ==
    (playing /\ ~crashed) =>
        \A n \in DOMAIN TickCalls(players, 0) :
            LET c == TickCalls(players, 0)[n]
            IN  CallScans(c) => (CallResult(c).players[c.id].dead <=> BruteForceHit(c))


---------------------------------------------------------------------------
(* The spatial index *)

\* The footprint of a partition: <<min corner, max corner>>
CellBox(partition) ==
    LET x == partition % numPartitions
        y == partition \div numPartitions
    IN  << << x * partitionSizeX - aspectRatio, y * partitionSizeY - fieldHeight >>,
           << (x + 1) * partitionSizeX - aspectRatio, (y + 1) * partitionSizeY - fieldHeight >> >>

BoxesOverlap(b1, b2) ==
    /\ b1[1][1] <= b2[2][1]
    /\ b1[2][1] >= b2[1][1]
    /\ b1[1][2] <= b2[2][2]
    /\ b1[2][2] >= b2[1][2]

\* C29: every entry of every player's spatial index names a segment of that
\* player whose fat box overlaps the footprint of the cell it is filed under.
C29_IndexSound ==
    \A p \in DOMAIN players : \A e \in players[p].fieldPartitions :
        /\ e[2] + 1 \in DOMAIN players[p].segments
        /\ BoxesOverlap(BoundingBox(players[p].segments[e[2] + 1]), CellBox(e[1]))


---------------------------------------------------------------------------
(* Watermarks and trails *)

\* C30: for every client and every player its watermark map holds, the
\* watermark is at most the index of that player's head segment.
C30_WatermarkNeverAhead ==
    \A c \in DOMAIN players :
        \A p \in DOMAIN players[c].lastSentSegmentIndices \cap DOMAIN players :
            players[c].lastSentSegmentIndices[p] <= Len(players[p].segments) - 1

\* The same with a watermark of 0 allowed for a player without segments
C30_WatermarkNeverAheadOrZero ==
    \A c \in DOMAIN players :
        \A p \in DOMAIN players[c].lastSentSegmentIndices \cap DOMAIN players :
            players[c].lastSentSegmentIndices[p] <= Max(Len(players[p].segments) - 1, 0)

---------------------------------------------------------------------------
(* Invariants of the player table *)

\* C31: in every reachable state, every alive player has a non-empty segment
\* list and the end point of its last segment lies inside the field,
\* [-aspectRatio, aspectRatio] x [-1, 1].
C31_AliveHeadInsideField ==
    ~crashed =>
        \A p \in DOMAIN players :
            ~players[p].dead =>
                /\ players[p].segments # << >>
                /\ ~OutsideField(HeadOf(p))

\* C31 witness: after a tick of a round an alive player's head lies on a border
\* of the field or within lineWidth of it
C31_Witness ==
    /\ ev.op = "gameLoop"
    /\ ev.subTicks > 0
    /\ lastFire > 0
    /\ ~crashed
    /\ \E p \in DOMAIN players :
          /\ ~players[p].dead
          /\ DistanceAhead(HeadOf(p), players[p].direction) <= lineWidth

---------------------------------------------------------------------------
(* A transport that may lose a game_state: socket.emit returns nothing the   *)
(* engine looks at, and a message handed to a socket whose connection is     *)
(* gone is discarded                                                         *)

\* gameLoop (game.ts) in a tick in which the game_state messages emitted to
\* the clients `dropped` do not reach them
GameLoopDropping(dropped) ==
    /\ ~crashed
    /\ EngineOnly
    /\ lastFire < MaxTicks * TickMs
    /\ now' = Max(now, lastFire + TickMs)
    /\ lastFire' = now'
    /\ \E g \in {IF playing
                 THEN SubTicks([players |-> players, prevAlive |-> prevAlive,
                                playing |-> TRUE, crashed |-> FALSE, subTicks |-> 0,
                                diedAt |-> << >>, over |-> FALSE, winners |-> << >>,
                                scored |-> << >>, maxGrowth |-> 0],
                               order, 0, lastTickEndTimestamp)
                 ELSE [players |-> players, prevAlive |-> prevAlive,
                       playing |-> FALSE, crashed |-> FALSE, subTicks |-> 0,
                       diedAt |-> << >>, over |-> FALSE, winners |-> << >>,
                       scored |-> << >>, maxGrowth |-> 0]} :
       \E to \in {IF g.crashed THEN {} ELSE Receivers(g.players, playing)} :
       \E sent \in {[c \in to |-> GameStateMessage(g.players, c)]} :
           /\ dropped \subseteq to
           /\ players' = SendAll(g.players, to)
           /\ prevAlive' = g.prevAlive
           /\ playing' = g.playing
           /\ crashed' = g.crashed
           /\ lastTickEndTimestamp' =
                  IF playing /\ ~g.crashed THEN now' ELSE lastTickEndTimestamp
           /\ ev' = [NoEvent EXCEPT !.op = "gameLoop", !.subTicks = g.subTicks,
                        !.diedAt = g.diedAt, !.over = g.over, !.scored = g.scored,
                        !.winners = g.winners, !.maxGrowth = g.maxGrowth,
                        !.redrawn = asked, !.base = lastTickEndTimestamp,
                        !.emitted = [k \in 1 .. Len(g.scored) |->
                                        Event("modify_player", g.scored[k])],
                        !.sent = sent, !.dropped = dropped]
           /\ copy' = Copies(copy, players', [c \in to \ dropped |-> sent[c]], {})
           /\ asked' = asked \ to
    /\ UNCHANGED << order, used >>

\* Player 1 steers, and the messages to client 1 are the ones that may be lost
NextDropping ==
    \/ \E id \in Ids : AddPlayer(id)
    \/ \E direction \in Direction, dt \in {0, ClockStep} : ProcessInput(1, direction, dt)
    \/ StartRound
    \/ \E dropped \in {{}, {1}} : GameLoopDropping(dropped)

SpecDropping == Init /\ [][NextDropping]_vars

\* C32: a client's watermark for a player advances only in a tick whose
\* game_state reached the transport: when the message to a client is dropped,
\* every watermark of that client is as it was before the tick (so the next
\* tick sends the same segments again).
C32_DroppedSendKeepsWatermark ==
    [][(ev'.op = "gameLoop" /\ ~crashed') =>
          \A c \in ev'.dropped \cap DOMAIN players :
              \A p \in DOMAIN players :
                  Watermark(players', c, p) = Watermark(players, c, p)]_vars

---------------------------------------------------------------------------
(* Properties of the round lifecycle of part_005 *)

\* The scores of the players in both tables are the same
ScoresKept(ps, qs) ==
    \A p \in DOMAIN ps \cap DOMAIN qs : qs[p].score = ps[p].score

\* C33: a round is scored once. After the tick that ended a round, a step that
\* is not a start leaves the game out of Playing and changes no score; and a
\* step scores a round end only if the game was Playing before it.
C33_RoundScoredOnce ==
    [][/\ (ev.op = "gameLoop" /\ ev.over /\ ~crashed /\ ev'.op # "startRound") =>
              (~playing' /\ ScoresKept(players, players'))
       /\ (ev'.op = "gameLoop" /\ ev'.over) => playing]_vars

\* C34: round-end scoring never references a removed player: in a tick that ends
\* the round every id chosen as a winner names a player of the table, also
\* when players were removed since the previous tick, and the tick does not throw.
C34_WinnersPresent ==
    [][(ev'.op = "gameLoop" /\ ev'.over) =>
          /\ \A k \in DOMAIN ev'.winners : ev'.winners[k] \in DOMAIN players
          /\ ~crashed']_vars

---------------------------------------------------------------------------
(* Properties of the spatial partition, continued *)

\* C35: cell indices stay in range: for the slice an alive player travels in
\* the next sub-tick, when it ends inside the field (on an edge included),
\* every cell index segmentToPartitions produces is in [0, N*N).
C35_CellIndicesInRange ==
    (playing /\ ~crashed) =>
        \A p \in DOMAIN players :
            (/\ ~players[p].dead
             /\ ~OutsideField(TravelSlice(players[p])[1])
             /\ ~OutsideField(TravelSlice(players[p])[2])) =>
                Range(segmentToPartitions(TravelSlice(players[p])))
                    \subseteq 0 .. (numPartitions * numPartitions - 1)

\* C35, as the tick shows it: with every id of prevAlive still in the table, a
\* tick of a round does not throw (fieldPartitions[partition] is never undefined).
C35_TickFindsEveryCell ==
    [][(ev'.op = "gameLoop" /\ playing /\ Range(prevAlive) \subseteq DOMAIN players) =>
          ~crashed']_vars

\* C36: countdown completion is safe for late joiners: when the countdown
\* callback runs, every player whose startingDirection is set has a segment
\* (also one who joined and pressed a direction after the start was accepted),
\* and the callback does not throw.
C36_CountdownSafeForLateJoiners ==
    [][ev'.op = "countdown" =>
          /\ \A p \in DOMAIN players :
                players[p].startingDirection # Null => players[p].segments # << >>
          /\ ~crashed']_vars

\* C37: the startingDirection applied at countdown completion was received
\* during that countdown: when the callback runs right after the start was
\* accepted, no input having arrived in between, it leaves every player's spawn
\* segment and direction as startRound drew them.
C37_IdleDirectionNotApplied ==
    [][(/\ ev.op = "startRound"
        /\ ev.emitted # << >>
        /\ ev'.op = "countdown"
        /\ ~crashed') =>
          \A p \in DOMAIN players :
              /\ players'[p].segments = players[p].segments
              /\ players'[p].direction = players[p].direction]_vars

---------------------------------------------------------------------------
(* Properties of the session layer: deletion timers *)

\* C38: deletion timers are not stale: when a timer deletes a session, the
\* session's client is not connected and no later disconnect of that session
\* has a timer still pending (the firing timer is the one of the most recent
\* disconnect).
C38_DeletionTimerNotStale ==
    [][(/\ ev'.op = "deletionTimer"
        /\ HasSession(Head(deletions).sessionID)
        /\ ~sessions'[Head(deletions).sessionID].present) =>
          /\ Head(deletions).sessionID \notin sockets
          /\ \A k \in DOMAIN Tail(deletions) :
                Tail(deletions)[k].sessionID # Head(deletions).sessionID]_vars

---------------------------------------------------------------------------
(* Properties of the input queue, continued *)

\* The queued input is a legal turn for the player as it now moves
LegalTurn(player, input) ==
    /\ input.direction # player.direction
    /\ input.direction # oppositeDirection(player.direction)

\* C39: no legal input is lost. Every sub-tick window of a later tick begins at
\* lastTickEndTimestamp or after it, so an input can still be applied by its
\* own only while its receivedTimestamp is not before lastTickEndTimestamp:
\* after a tick that leaves the round running, every legal turn left in the queue of an alive
\* player is one that a coming window can still find.
C39_NoLegalInputLost ==
    [][(ev'.op = "gameLoop" /\ playing /\ playing' /\ ~crashed') =>
          \A p \in DOMAIN players' :
              ~players'[p].dead =>
                  \A k \in DOMAIN players'[p].pendingDirectionInputs :
                      LegalTurn(players'[p], players'[p].pendingDirectionInputs[k]) =>
                          players'[p].pendingDirectionInputs[k].receivedTimestamp
                              >= lastTickEndTimestamp']_vars

---------------------------------------------------------------------------
(* Termination of a round: the rounds of InitBorder with no inputs, joins or *)
(* removals. Player 1 reaches the border ahead within MaxBorderDist, so each *)
(* of these rounds is due to end within MaxTicks ticks of the timer.         *)

NextRound == GameLoop

SpecRound == InitBorder /\ [][NextRound]_vars

\* The timer has fired MaxTicks times, or a tick has thrown
TicksDone == crashed \/ lastFire >= MaxTicks * TickMs

\* C40: every round terminates: once the ticks of the round have fired, the
\* game has left Playing with the round-end scoring done (no tick has thrown).
C40_RoundTerminates ==
    TicksDone => (~playing /\ ~crashed)

\* C40 apart from the ticks that throw: every round whose ticks all complete
\* has ended once they have fired.
C40_RoundTerminatesUnlessTickThrows ==
    (TicksDone /\ ~crashed) => ~playing

====
